---- MODULE Spec2Model ----
(***************************************************************************)
(* Model of the amana-marketing dashboard: the four page views (weekly,    *)
(* demographic, device, regional), their data loading and the aggregation  *)
(* each one runs over the fetched campaign list.                           *)
(*                                                                         *)
(* Numbers.  A JavaScript number is modelled as an exact rational          *)
(* [n |-> numerator, d |-> denominator] in lowest terms with d > 0; d = 0  *)
(* encodes the non-finite values (n = 0: NaN, n = 1: Infinity, n = -1:     *)
(* -Infinity).  IEEE rounding of the binary representation is abstracted.  *)
(*                                                                         *)
(* Strings.  A string the code slices, splits, trims or concatenates is a  *)
(* sequence of one-character strings, so that these operations are         *)
(* computed and not assumed.                                               *)
(***************************************************************************)
EXTENDS Integers, Sequences, FiniteSets, TLC

VARIABLES
  page,            \* the page that was requested
  marketingData,   \* client views: the fetched data, NULL until the fetch resolves
  loading,         \* client views: the loading flag
  error,           \* demographic and device views: the captured error message
  aggregatedData,  \* client views: the memoized result of the aggregation
  response,        \* device page: what the data source answered, NULL before
  rawData,         \* device page: the campaigns the ingestion returned
  deviceData,      \* device page: the result of restructureDevicePerformance
  view,            \* what the page shows
  calls,           \* repeated invocation: the aggregations invoked so far
  accumulators,    \* repeated invocation: the accumulator each aggregation's last
                   \* invocation built
  fetches,         \* the number of fetches the page has issued
  fetched,         \* the fetch of the page: its status and, for a client view,
                   \* the data it resolved with or the value it rejected with
  recomputations   \* client views: how often the useMemo callback ran again
                   \* after the first render

vars ==
  <<page, marketingData, loading, error, aggregatedData, response, rawData, deviceData,
    view, calls, accumulators, fetches, fetched, recomputations>>

----------------------------------------------------------------------------
(* Bounds of the explored inputs *)

\* at most this many campaigns in a response
MaxCampaigns == 2
\* at most this many sub-records in a response, over all its campaigns
MaxRecs == 2
\* at most this many invocations of the aggregations in a row
MaxCalls == 3
\* impressions, clicks and conversions of a sub-record range over 0..MaxCount
MaxCount == 1
\* spend and revenue range over the multiples 0..MaxMoney of 1/8
MaxMoney == 1
\* percentage_of_audience ranges over 0..MaxPct
MaxPct == 2

----------------------------------------------------------------------------
(* JavaScript numbers *)

\* A value that may be null is a sequence: empty for null, else the one value
NULL == <<>>
Some(x) == <<x>>

Abs(x) == IF x < 0 THEN -x ELSE x
Sign(x) == IF x > 0 THEN 1 ELSE IF x < 0 THEN -1 ELSE 0

RECURSIVE GCD(_, _)
GCD(a, b) == IF b = 0 THEN a ELSE GCD(b, a % b)

\* the number n/d (d may be 0: a non-finite value)
Num(n, d) ==
  IF d = 0 THEN [n |-> Sign(n), d |-> 0]
  ELSE LET g == GCD(Abs(n), Abs(d))
           s == Sign(d)
       IN  [n |-> s * (Abs(n) \div g) * Sign(n), d |-> Abs(d) \div g]

Whole(k) == [n |-> k, d |-> 1]
Zero == Whole(0)
NaN == [n |-> 0, d |-> 0]
IsNaN(x) == x.d = 0 /\ x.n = 0
IsFinite(x) == x.d > 0

\* a + b
JsAdd(a, b) ==
  IF IsFinite(a) /\ IsFinite(b) THEN Num(a.n * b.d + b.n * a.d, a.d * b.d)
  ELSE IF IsNaN(a) \/ IsNaN(b) THEN NaN
  ELSE IF IsFinite(a) THEN b
  ELSE IF IsFinite(b) THEN a
  ELSE IF a.n = b.n THEN a ELSE NaN

\* a - b
JsSub(a, b) == JsAdd(a, [n |-> -b.n, d |-> b.d])

\* a * b
JsMul(a, b) ==
  IF IsNaN(a) \/ IsNaN(b) THEN NaN
  ELSE IF IsFinite(a) /\ IsFinite(b) THEN Num(a.n * b.n, a.d * b.d)
  ELSE IF a.n = 0 \/ b.n = 0 THEN NaN
  ELSE [n |-> Sign(a.n) * Sign(b.n), d |-> 0]

\* a / b: division by zero does not raise, it yields Infinity or NaN
JsDiv(a, b) ==
  IF IsNaN(a) \/ IsNaN(b) THEN NaN
  ELSE IF IsFinite(a) /\ IsFinite(b) THEN Num(a.n * b.d, a.d * b.n)
  ELSE IF IsFinite(a) THEN Zero
  ELSE IF IsFinite(b) THEN [n |-> a.n * (IF b.n < 0 THEN -1 ELSE 1), d |-> 0]
  ELSE NaN

\* a > b (false whenever an operand is NaN)
JsGt(a, b) ==
  IF IsNaN(a) \/ IsNaN(b) THEN FALSE
  ELSE IF IsFinite(a) /\ IsFinite(b) THEN a.n * b.d > b.n * a.d
  ELSE IF IsFinite(a) THEN b.n < 0
  ELSE IF IsFinite(b) THEN a.n > 0
  ELSE a.n > b.n

\* den > 0 ? num / den : 0, the guard every rate is computed under
SafeRatio(num, den) == IF JsGt(den, Zero) THEN JsDiv(num, den) ELSE Zero

\* a >= b
JsGe(a, b) == JsGt(a, b) \/ (~IsNaN(a) /\ ~IsNaN(b) /\ a = b)

\* Math.abs(a)
JsAbs(a) == [n |-> Abs(a.n), d |-> a.d]

\* a === b on numbers (NaN equals nothing)
JsEq(a, b) == ~IsNaN(a) /\ ~IsNaN(b) /\ a = b

\* the values null and undefined where a number is expected
JsNull == [n |-> 0, d |-> -1]
JsUndefined == [n |-> 0, d |-> -2]

\* the conversion to a number that total += v applies to v: null becomes 0,
\* undefined becomes NaN, a number is kept
ToNumber(v) ==
  IF v = JsNull THEN Zero ELSE IF v = JsUndefined THEN NaN ELSE v

----------------------------------------------------------------------------
(* Strings as sequences of characters *)

Digits == <<"0", "1", "2", "3", "4", "5", "6", "7", "8", "9">>
IsDigit(c) == \E i \in 1..10 : Digits[i] = c
DigitVal(c) == (CHOOSE i \in 1..10 : Digits[i] = c) - 1

\* s.slice(k): the characters from index k (0-based) on
Slice(s, k) == IF k >= Len(s) THEN <<>> ELSE SubSeq(s, k + 1, Len(s))

\* s.split('-')
RECURSIVE SplitFrom(_, _, _, _)
SplitFrom(s, i, cur, acc) ==
  IF i > Len(s) THEN Append(acc, cur)
  ELSE IF s[i] = "-" THEN SplitFrom(s, i + 1, <<>>, Append(acc, cur))
  ELSE SplitFrom(s, i + 1, Append(cur, s[i]), acc)

Split(s) == SplitFrom(s, 1, <<>>, <<>>)

\* the template-literal / concatenation of two strings
Concat(s, t) == s \o t

\* s.trim(): leading and trailing white space removed
WhiteSpace == {" ", "\t", "\n"}

RECURSIVE TrimStart(_)
TrimStart(s) ==
  IF s # <<>> /\ Head(s) \in WhiteSpace THEN TrimStart(Tail(s)) ELSE s

RECURSIVE TrimEnd(_)
TrimEnd(s) ==
  IF s # <<>> /\ s[Len(s)] \in WhiteSpace THEN TrimEnd(SubSeq(s, 1, Len(s) - 1)) ELSE s

Trim(s) == TrimEnd(TrimStart(s))

\* the decimal value of a string of digits
RECURSIVE DigitsValue(_, _)
DigitsValue(s, acc) ==
  IF s = <<>> THEN acc ELSE DigitsValue(Tail(s), 10 * acc + DigitVal(Head(s)))

AllDigits(s) == s # <<>> /\ \A i \in 1..Len(s) : IsDigit(s[i])

\* days from 1970-01-01 to the civil date y-m-d (proleptic Gregorian)
DaysFromCivil(y, m, d) ==
  LET yy  == IF m <= 2 THEN y - 1 ELSE y
      era == yy \div 400
      yoe == yy - era * 400
      mp  == IF m > 2 THEN m - 3 ELSE m + 9
      doy == (153 * mp + 2) \div 5 + d - 1
      doe == yoe * 365 + yoe \div 4 - yoe \div 100 + doy
  IN  era * 146097 + doe - 719468

\* new Date(s).getTime() for a date-only ISO string "YYYY-MM-DD": UTC midnight of
\* that day, counted here in whole days (getTime() / 86400000, which keeps every
\* difference's sign); NaN for a string of any other form
DateGetTime(s) ==
  LET parts == Split(s)
  IN  IF /\ Len(parts) = 3
         /\ \A i \in 1..3 : AllDigits(parts[i])
         /\ Len(parts[1]) = 4 /\ Len(parts[2]) = 2 /\ Len(parts[3]) = 2
         /\ DigitsValue(parts[2], 0) \in 1..12
         /\ DigitsValue(parts[3], 0) \in 1..31
      THEN Whole(DaysFromCivil(DigitsValue(parts[1], 0),
                               DigitsValue(parts[2], 0),
                               DigitsValue(parts[3], 0)))
      ELSE NaN

----------------------------------------------------------------------------
(* Arrays and keyed objects *)

\* Array.prototype.sort with a comparator: stable; Less(a, b) is "compare(a, b) < 0"
StableSort(s, Less(_, _)) ==
  LET Rank(i) == Cardinality({j \in 1..Len(s) :
                    \/ Less(s[j], s[i])
                    \/ (~Less(s[i], s[j]) /\ j < i)}) + 1
  IN  [k \in 1..Len(s) |-> s[CHOOSE i \in 1..Len(s) : Rank(i) = k]]

\* array.map(F)
MapSeq(s, F(_)) == [i \in 1..Len(s) |-> F(s[i])]

\* array.filter(Keep)
Filter(s, Keep(_)) == SelectSeq(s, Keep)

\* array.reduce((sum, item) => sum + F(item), 0)
RECURSIVE SumFrom(_, _, _, _)
SumFrom(s, F(_), i, acc) ==
  IF i > Len(s) THEN acc ELSE SumFrom(s, F, i + 1, JsAdd(acc, F(s[i])))

ReduceSum(s, F(_)) == SumFrom(s, F, 1, Zero)

\* A plain object used as a dictionary: the sequence of its own entries
\* [key, val] in insertion order (the order Object.values / Object.entries
\* follow for keys that are not array indices).
KeyIndex(map, key) ==
  IF \E i \in 1..Len(map) : map[i].key = key
  THEN CHOOSE i \in 1..Len(map) : map[i].key = key
  ELSE 0

ObjectValues(map) == [i \in 1..Len(map) |-> map[i].val]

----------------------------------------------------------------------------
(* The fetched data: campaigns and their nested records *)

Counts == {Whole(k) : k \in 0..MaxCount}
\* amounts are multiples of 1/8, so that rounding to cents is not the identity
Money  == {Num(k, 8) : k \in 0..MaxMoney}

\* spend and revenue of a record or a campaign: the revenue is twice the spend
Financials == {[spend |-> m, revenue |-> JsAdd(m, m)] : m \in Money}

\* engagement counts: a conversion follows a click and a click an impression
FunnelCounts ==
  {e \in [impressions : Counts, clicks : Counts, conversions : Counts] :
     ~JsGt(e.clicks, e.impressions) /\ ~JsGt(e.conversions, e.clicks)}

Campaign(spend, revenue, weekly, demographic, device, regional) ==
  [spend |-> spend, revenue |-> revenue,
   weekly_performance |-> weekly,
   demographic_breakdown |-> demographic,
   device_performance |-> device,
   regional_performance |-> regional]

\* the ways to cut a list of L records into k consecutive non-empty runs
Cuts(L, k) ==
  {f \in [1..(k + 1) -> 0..L] :
     /\ f[1] = 0
     /\ f[k + 1] = L
     /\ \A j \in 1..k : f[j] < f[j + 1]}

RecLists(R) == UNION {[1..n -> R] : n \in 0..MaxRecs}

\* The record lists of the campaigns of a response: at most MaxCampaigns
\* campaigns holding at most MaxRecs records in all; either every campaign holds
\* a record, or none does.
Distributions(R) ==
  {[j \in 1..k |-> <<>>] : k \in 1..MaxCampaigns} \cup
  UNION {UNION {{[j \in 1..k |-> SubSeq(rs, f[j] + 1, f[j + 1])] : f \in Cuts(Len(rs), k)}
                : k \in 1..MaxCampaigns}
         : rs \in RecLists(R)}

----------------------------------------------------------------------------
(* Weekly view: aggregation *)

WeekStarts == {<<"2","0","2","4","-","0","1","-","0","1">>,
               <<"2","0","2","4","-","0","1","-","0","8">>}

WeekEndOf(w) ==
  IF w = <<"2","0","2","4","-","0","1","-","0","1">>
  THEN <<"2","0","2","4","-","0","1","-","0","7">>
  ELSE <<"2","0","2","4","-","0","1","-","1","4">>

WeeklyRecords ==
  {[week_start |-> w, week_end |-> WeekEndOf(w), impressions |-> i, clicks |-> c,
    conversions |-> v, spend |-> m.spend, revenue |-> m.revenue] :
     w \in WeekStarts, i \in Counts, c \in Counts, v \in Counts, m \in Financials}

WeeklyCampaignLists ==
  {<<>>} \cup
  {[j \in 1..Len(p) |-> Campaign(Zero, Zero, p[j], <<>>, <<>>, <<>>)] :
     p \in Distributions(WeeklyRecords)}

initialWeeklyResult ==
  [totalRevenue |-> Zero, totalSpend |-> Zero, avgConversionRate |-> Zero,
   revenueChartData |-> <<>>, spendChartData |-> <<>>]

\* weeklyMapAdd with the record's spend and revenue assigned to the group
\* instead of added to it
weeklyMapAddAssigning(map, week) ==
  LET key == week.week_start
      i   == KeyIndex(map, key)
      m1  == IF i = 0
             THEN Append(map, [key |-> key,
                               val |-> [weekStart |-> week.week_start,
                                        weekEnd |-> week.week_end,
                                        impressions |-> Zero, clicks |-> Zero,
                                        conversions |-> Zero, spend |-> Zero,
                                        revenue |-> Zero]])
             ELSE map
      j   == IF i = 0 THEN Len(m1) ELSE i
  IN  [m1 EXCEPT ![j].val =
         [@ EXCEPT !.impressions = JsAdd(@, ToNumber(week.impressions)),
                   !.clicks      = JsAdd(@, ToNumber(week.clicks)),
                   !.conversions = JsAdd(@, ToNumber(week.conversions)),
                   !.spend       = week.spend,
                   !.revenue     = week.revenue]]

\* the body of campaign.weekly_performance.forEach: one record added to weeklyMap
weeklyMapAdd(map, week) ==
  LET key == week.week_start
      i   == KeyIndex(map, key)
      m1  == IF i = 0
             THEN Append(map, [key |-> key,
                               val |-> [weekStart |-> week.week_start,
                                        weekEnd |-> week.week_end,
                                        impressions |-> Zero, clicks |-> Zero,
                                        conversions |-> Zero, spend |-> Zero,
                                        revenue |-> Zero]])
             ELSE map
      j   == IF i = 0 THEN Len(m1) ELSE i
  IN  [m1 EXCEPT ![j].val =
         [@ EXCEPT !.impressions = JsAdd(@, ToNumber(week.impressions)),
                   !.clicks      = JsAdd(@, ToNumber(week.clicks)),
                   !.conversions = JsAdd(@, ToNumber(week.conversions)),
                   !.spend       = JsAdd(@, ToNumber(week.spend)),
                   !.revenue     = JsAdd(@, ToNumber(week.revenue))]]

RECURSIVE weeklyForEachWeek(_, _, _)
weeklyForEachWeek(map, weeks, i) ==
  IF i > Len(weeks) THEN map
  ELSE weeklyForEachWeek(weeklyMapAdd(map, weeks[i]), weeks, i + 1)

\* campaigns.forEach(campaign => campaign.weekly_performance.forEach(...))
RECURSIVE weeklyMap(_, _, _)
weeklyMap(map, campaigns, c) ==
  IF c > Len(campaigns) THEN map
  ELSE weeklyMap(weeklyForEachWeek(map, campaigns[c].weekly_performance, 1),
                 campaigns, c + 1)

\* the rates of one weekly group
weeklyRates(totals) ==
  [weekStart |-> totals.weekStart, weekEnd |-> totals.weekEnd,
   impressions |-> totals.impressions, clicks |-> totals.clicks,
   conversions |-> totals.conversions, spend |-> totals.spend,
   revenue |-> totals.revenue,
   ctr |-> IF JsGt(totals.impressions, Zero)
           THEN JsDiv(totals.clicks, totals.impressions) ELSE Zero,
   conversionRate |-> IF JsGt(totals.clicks, Zero)
                      THEN JsDiv(totals.conversions, totals.clicks) ELSE Zero]

\* a comparator that leaves the list as it is
weekNeverBefore(a, b) == FALSE

\* the comparator of the sort: a is placed before b when its week starts earlier
weekBefore(a, b) ==
  JsGt(Zero, JsSub(DateGetTime(a.weekStart), DateGetTime(b.weekStart)))

\* const weeklyMap = {}: the accumulator is created by the invocation, whatever
\* accumulator an earlier invocation built
newWeeklyMap(earlier) == <<>>

\* Object.values(weeklyMap).map(...) followed by the sort on week start: the
\* groups of a filled weeklyMap, rated and sorted
weeklyListOf(map) ==
  LET values == ObjectValues(map)
      rated  == [i \in 1..Len(values) |-> weeklyRates(values[i])]
  IN  StableSort(rated, weekBefore)

finalWeeklyList(campaigns) ==
  weeklyListOf(weeklyMap(newWeeklyMap(<<>>), campaigns, 1))

\* one point of a weekly line chart
weeklyChartPoint(item, value, what) ==
  [label |-> Slice(item.weekStart, 5), value |-> value,
   tooltipLabel |-> <<what>> \o item.weekStart \o <<" to ">> \o item.weekEnd \o <<")">>]

\* weeklyResult with the mean of the weeks' conversion rates as the average
weeklyResultMeanOfRates(list) ==
  LET Revenue(item) == item.revenue
      Spend(item) == item.spend
      Rate(item) == item.conversionRate
      RevenuePoint(item) == weeklyChartPoint(item, item.revenue, "Revenue (")
      SpendPoint(item) == weeklyChartPoint(item, item.spend, "Spend (")
  IN  [totalRevenue |-> ReduceSum(list, Revenue),
       totalSpend |-> ReduceSum(list, Spend),
       avgConversionRate |-> SafeRatio(ReduceSum(list, Rate), Whole(Len(list))),
       revenueChartData |-> MapSeq(list, RevenuePoint),
       spendChartData |-> MapSeq(list, SpendPoint)]

\* the global metrics and the chart data computed from the sorted list
weeklyResult(list) ==
  LET Revenue(item) == item.revenue
      Spend(item) == item.spend
      Conversions(item) == item.conversions
      Clicks(item) == item.clicks
      RevenuePoint(item) == weeklyChartPoint(item, item.revenue, "Revenue (")
      SpendPoint(item) == weeklyChartPoint(item, item.spend, "Spend (")
  IN  [totalRevenue |-> ReduceSum(list, Revenue),
       totalSpend |-> ReduceSum(list, Spend),
       avgConversionRate |-> SafeRatio(ReduceSum(list, Conversions), ReduceSum(list, Clicks)),
       revenueChartData |-> MapSeq(list, RevenuePoint),
       spendChartData |-> MapSeq(list, SpendPoint)]

\* the useMemo callback of WeeklyView
WeeklyAggregate(data) ==
  IF data = NULL \/ Len(data[1].campaigns) = 0 THEN initialWeeklyResult
  ELSE weeklyResult(finalWeeklyList(data[1].campaigns))

----------------------------------------------------------------------------
(* Demographic view: aggregation with redistribution of spend and revenue *)

Male   == <<"M","a","l","e">>
Female == <<"F","e","m","a","l","e">>

AgeGroups == {<<"1","8","-","2","4">>, <<"2","5","-","3","4">>}

Percentages == {Whole(k) : k \in 0..MaxPct}

\* engagement counts of a demographic record: every click converts
DemographicCounts == {e \in FunnelCounts : e.conversions = e.clicks}

DemographicRecords ==
  {[gender |-> g, age_group |-> a, percentage_of_audience |-> p, performance |-> e] :
     g \in {Male, Female}, a \in AgeGroups, p \in Percentages,
     e \in DemographicCounts}

DemographicCampaignLists ==
  {<<>>} \cup
  UNION {{[j \in 1..Len(p) |-> Campaign(m[j].spend, m[j].revenue, <<>>, p[j], <<>>, <<>>)] :
            m \in [1..Len(p) -> Financials]}
         : p \in Distributions(DemographicRecords)}

initialMetrics == [totalClicks |-> Zero, totalSpend |-> Zero, totalRevenue |-> Zero]

initialDemographicResult ==
  [maleMetrics |-> initialMetrics, femaleMetrics |-> initialMetrics,
   spendChart |-> <<>>, revenueChart |-> <<>>,
   maleTableData |-> <<>>, femaleTableData |-> <<>>]

\* the sum of percentage_of_audience over the campaign's demographic records
totalCampaignAudiencePercentage(campaign) ==
  LET Pct(item) == item.percentage_of_audience
  IN  ReduceSum(campaign.demographic_breakdown, Pct)

\* ratio taking percentage_of_audience for a percentage of the whole audience
ratioOfHundred(campaign, breakdown) ==
  JsDiv(breakdown.percentage_of_audience, Whole(100))

\* ratio without the guard on the campaign's total percentage
ratioUnguarded(campaign, breakdown) ==
  JsDiv(breakdown.percentage_of_audience, totalCampaignAudiencePercentage(campaign))

\* the share of the campaign's financials a record receives
ratio(campaign, breakdown) ==
  LET total == totalCampaignAudiencePercentage(campaign)
  IN  IF JsGt(total, Zero) THEN JsDiv(breakdown.percentage_of_audience, total) ELSE Zero

distributedSpend(campaign, breakdown) == JsMul(campaign.spend, ratio(campaign, breakdown))

distributedRevenue(campaign, breakdown) == JsMul(campaign.revenue, ratio(campaign, breakdown))

demographicKey(breakdown) == breakdown.gender \o <<"-">> \o breakdown.age_group

\* the body of campaign.demographic_breakdown.forEach
demographicMapAdd(map, campaign, breakdown) ==
  LET key == demographicKey(breakdown)
      i   == KeyIndex(map, key)
      m1  == IF i = 0
             THEN Append(map, [key |-> key,
                               val |-> [impressions |-> Zero, clicks |-> Zero,
                                        conversions |-> Zero, spend |-> Zero,
                                        revenue |-> Zero]])
             ELSE map
      j   == IF i = 0 THEN Len(m1) ELSE i
  IN  [m1 EXCEPT ![j].val =
         [@ EXCEPT !.impressions = JsAdd(@, breakdown.performance.impressions),
                   !.clicks      = JsAdd(@, breakdown.performance.clicks),
                   !.conversions = JsAdd(@, breakdown.performance.conversions),
                   !.spend       = JsAdd(@, distributedSpend(campaign, breakdown)),
                   !.revenue     = JsAdd(@, distributedRevenue(campaign, breakdown))]]

RECURSIVE demographicForEachBreakdown(_, _, _)
demographicForEachBreakdown(map, campaign, i) ==
  IF i > Len(campaign.demographic_breakdown) THEN map
  ELSE demographicForEachBreakdown(
         demographicMapAdd(map, campaign, campaign.demographic_breakdown[i]),
         campaign, i + 1)

RECURSIVE demographicMap(_, _, _)
demographicMap(map, campaigns, c) ==
  IF c > Len(campaigns) THEN map
  ELSE demographicMap(demographicForEachBreakdown(map, campaigns[c], 1), campaigns, c + 1)

\* one entry of demographicMap turned into an aggregated group:
\* const [gender, ageGroup] = key.split('-')
demographicGroup(entry) ==
  LET parts  == Split(entry.key)
      totals == entry.val
  IN  [ageGroup |-> parts[2], gender |-> parts[1],
       impressions |-> totals.impressions, clicks |-> totals.clicks,
       conversions |-> totals.conversions, spend |-> totals.spend,
       revenue |-> totals.revenue,
       ctr |-> IF JsGt(totals.impressions, Zero)
               THEN JsDiv(totals.clicks, totals.impressions) ELSE Zero,
       conversionRate |-> IF JsGt(totals.clicks, Zero)
                          THEN JsDiv(totals.conversions, totals.clicks) ELSE Zero]

\* Object.entries(demographicMap).map(...)
\* const demographicMap = {}: created by the invocation
newDemographicMap(earlier) == <<>>

\* the groups of a filled demographicMap
aggregatedListOf(map) == [i \in 1..Len(map) |-> demographicGroup(map[i])]

aggregatedList(campaigns) ==
  aggregatedListOf(demographicMap(newDemographicMap(<<>>), campaigns, 1))

calculateMetrics(data) ==
  LET Clicks(row) == row.clicks
      Spend(row) == row.spend
      Revenue(row) == row.revenue
  IN  [totalClicks |-> ReduceSum(data, Clicks),
       totalSpend |-> ReduceSum(data, Spend),
       totalRevenue |-> ReduceSum(data, Revenue)]

\* the rows of a gender's table; of the display strings only ageGroup is kept,
\* the numeric columns are carried by their _sort_ keys
formatTableData(data) ==
  [i \in 1..Len(data) |->
     [ageGroup |-> data[i].ageGroup,
      _sort_impressions |-> data[i].impressions,
      _sort_clicks |-> data[i].clicks,
      _sort_conversions |-> data[i].conversions,
      _sort_ctr |-> data[i].ctr,
      _sort_conversionRate |-> data[i].conversionRate]]

\* parseInt(s): the value of the leading decimal digits, NaN when there are none
RECURSIVE LeadingDigits(_)
LeadingDigits(s) ==
  IF s # <<>> /\ IsDigit(Head(s)) THEN <<Head(s)>> \o LeadingDigits(Tail(s)) ELSE <<>>

ParseInt(s) ==
  LET t == TrimStart(s)
      ds == LeadingDigits(t)
  IN  IF ds = <<>> THEN NaN ELSE Whole(DigitsValue(ds, 0))

\* a property name that is a canonical array index ("0", "18", ...)
IsArrayIndex(key) ==
  /\ AllDigits(key)
  /\ Len(key) <= 9
  /\ (Len(key) > 1 => key[1] # "0")

\* Object.keys(map): the array-index keys in ascending numeric order, then the
\* other keys in insertion order
ObjectKeys(map) ==
  LET keys == [i \in 1..Len(map) |-> map[i].key]
      IsIndex(k) == IsArrayIndex(k)
      NotIndex(k) == ~IsArrayIndex(k)
      IndexBefore(a, b) == DigitsValue(a, 0) < DigitsValue(b, 0)
  IN  StableSort(Filter(keys, IsIndex), IndexBefore) \o Filter(keys, NotIndex)

\* aggregatedList.forEach(row => ageDataMap[row.ageGroup] ...)
RECURSIVE ageDataMap(_, _, _)
ageDataMap(map, list, i) ==
  IF i > Len(list) THEN map
  ELSE LET row == list[i]
           k   == KeyIndex(map, row.ageGroup)
           m1  == IF k = 0
                  THEN Append(map, [key |-> row.ageGroup,
                                    val |-> [spend |-> Zero, revenue |-> Zero]])
                  ELSE map
           j   == IF k = 0 THEN Len(m1) ELSE k
       IN  ageDataMap([m1 EXCEPT ![j].val =
                         [@ EXCEPT !.spend = JsAdd(@, row.spend),
                                   !.revenue = JsAdd(@, row.revenue)]],
                      list, i + 1)

ageBefore(a, b) ==
  JsGt(Zero, JsSub(ParseInt(Split(a)[1]), ParseInt(Split(b)[1])))

\* Object.keys(ageDataMap).sort(...)
ageGroups(map) == StableSort(ObjectKeys(map), ageBefore)

\* the two bar charts, one point per key of ageDataMap in sorted order
ageChart(map, groups, Value(_), color) ==
  [i \in 1..Len(groups) |->
     [label |-> groups[i], value |-> Value(map[KeyIndex(map, groups[i])].val),
      color |-> color]]

demographicCharts(map) ==
  LET Spend(v) == v.spend
      Revenue(v) == v.revenue
  IN  [spendChart |-> ageChart(map, ageGroups(map), Spend, "#f87171"),
       revenueChart |-> ageChart(map, ageGroups(map), Revenue, "#4ade80")]

\* maleData without the filter on the gender
maleDataOfBothGenders(list) == list

maleData(list) == LET IsMale(row) == row.gender = Male IN Filter(list, IsMale)

femaleData(list) == LET IsFemale(row) == row.gender = Female IN Filter(list, IsFemale)

\* the result computed from aggregatedList
demographicResult(list) ==
  [maleMetrics |-> calculateMetrics(maleData(list)),
   femaleMetrics |-> calculateMetrics(femaleData(list)),
   spendChart |-> demographicCharts(ageDataMap(<<>>, list, 1)).spendChart,
   revenueChart |-> demographicCharts(ageDataMap(<<>>, list, 1)).revenueChart,
   maleTableData |-> formatTableData(maleData(list)),
   femaleTableData |-> formatTableData(femaleData(list))]

\* the useMemo callback of DemographicView
DemographicAggregate(data) ==
  IF data = NULL \/ Len(data[1].campaigns) = 0 THEN initialDemographicResult
  ELSE demographicResult(aggregatedList(data[1].campaigns))

----------------------------------------------------------------------------
(* Device view: aggregation, ingestion and comparison *)

Mobile  == <<"M","o","b","i","l","e">>
Desktop == <<"D","e","s","k","t","o","p">>

\* device values that are not one of the two tracked devices as written
OtherDevices ==
  {Some(<<" ">> \o Mobile \o <<" ">>),
   Some(Desktop \o <<"\n">>),
   Some(<<"T","a","b","l","e","t">>),
   Some(<<"m","o","b","i","l","e">>),
   Some(<<>>),
   NULL}

\* engagement counts of a device record: the funnel counts, and the same with
\* three impressions, so that a rate can have more than two decimals
DeviceCounts ==
  FunnelCounts \cup
  {[e EXCEPT !.impressions = Whole(MaxCount + 2)] :
     e \in {f \in FunnelCounts : JsGt(f.impressions, Zero)}}

\* records of the two devices with every combination of metrics, and records
\* of the other device values with every metric positive
DeviceRecords ==
  {[device |-> Some(dv), impressions |-> e.impressions, clicks |-> e.clicks,
    conversions |-> e.conversions, spend |-> m.spend, revenue |-> m.revenue] :
     dv \in {Mobile, Desktop}, e \in DeviceCounts, m \in Financials}
  \cup
  {[device |-> dv, impressions |-> Whole(MaxCount), clicks |-> Whole(MaxCount),
    conversions |-> Whole(MaxCount), spend |-> Num(MaxMoney, 8),
    revenue |-> Num(MaxMoney, 4)] : dv \in OtherDevices}

\* a Mobile record with every metric positive
CompleteMobileRecord ==
  [device |-> Some(Mobile), impressions |-> Whole(MaxCount), clicks |-> Whole(MaxCount),
   conversions |-> Whole(MaxCount), spend |-> Num(MaxMoney, 8),
   revenue |-> Num(MaxMoney, 4)]

\* Mobile records with one numeric field null or undefined
IncompleteDeviceRecords ==
  {[CompleteMobileRecord EXCEPT !.impressions = v] : v \in {JsNull, JsUndefined}} \cup
  {[CompleteMobileRecord EXCEPT !.spend = v] : v \in {JsNull, JsUndefined}} \cup
  {[CompleteMobileRecord EXCEPT !.revenue = JsNull],
   [CompleteMobileRecord EXCEPT !.clicks = JsUndefined]}

\* a campaign whose device_performance is missing
NoDeviceCampaign == Campaign(Zero, Zero, <<>>, <<>>, NULL, <<>>)

DeviceCampaignLists ==
  {<<>>, <<NoDeviceCampaign>>} \cup
  UNION {{<<Campaign(Zero, Zero, <<>>, <<>>, Some(<<r>>), <<>>)>>,
          <<Campaign(Zero, Zero, <<>>, <<>>, Some(<<CompleteMobileRecord, r>>), <<>>)>>}
         : r \in IncompleteDeviceRecords} \cup
  {[j \in 1..Len(p) |-> Campaign(Zero, Zero, <<>>, <<>>, Some(p[j]), <<>>)] :
     p \in Distributions(DeviceRecords)} \cup
  UNION {{<<NoDeviceCampaign, Campaign(Zero, Zero, <<>>, <<>>, Some(<<r>>), <<>>)>>,
          <<Campaign(Zero, Zero, <<>>, <<>>, Some(<<r>>), <<>>), NoDeviceCampaign>>}
         : r \in DeviceRecords}

\* x.toFixed(p) read back as a number, scale = 10^p: x rounded to p decimals,
\* a tie away from zero; a non-finite x is kept
ToFixed(x, scale) ==
  IF ~IsFinite(x) THEN x
  ELSE Num(Sign(x.n) * ((2 * scale * Abs(x.n) + x.d) \div (2 * x.d)), scale)

\* parseFloat(x.toFixed(2))
Round2(x) == ToFixed(x, 100)

\* deviceMapAdd comparing the device string as it comes, without trimming it
deviceMapAddUntrimmed(map, stat) ==
  LET deviceKey == IF stat.device # NULL THEN stat.device[1] ELSE <<>>
  IN  IF deviceKey = Mobile \/ deviceKey = Desktop
      THEN LET j == KeyIndex(map, deviceKey)
           IN  [map EXCEPT ![j].val =
                  [@ EXCEPT !.impressions = JsAdd(@, ToNumber(stat.impressions)),
                            !.clicks      = JsAdd(@, ToNumber(stat.clicks)),
                            !.conversions = JsAdd(@, ToNumber(stat.conversions)),
                            !.spend       = JsAdd(@, ToNumber(stat.spend)),
                            !.revenue     = JsAdd(@, ToNumber(stat.revenue))]]
      ELSE map

\* the body of the loop over campaign.device_performance
deviceMapAdd(map, stat) ==
  LET deviceKey == IF stat.device # NULL /\ stat.device[1] # <<>>
                   THEN Trim(stat.device[1]) ELSE <<>>
  IN  IF deviceKey = Mobile \/ deviceKey = Desktop
      THEN LET j == KeyIndex(map, deviceKey)
           IN  [map EXCEPT ![j].val =
                  [@ EXCEPT !.impressions = JsAdd(@, ToNumber(stat.impressions)),
                            !.clicks      = JsAdd(@, ToNumber(stat.clicks)),
                            !.conversions = JsAdd(@, ToNumber(stat.conversions)),
                            !.spend       = JsAdd(@, ToNumber(stat.spend)),
                            !.revenue     = JsAdd(@, ToNumber(stat.revenue))]]
      ELSE map

RECURSIVE deviceForEachStat(_, _, _)
deviceForEachStat(map, stats, i) ==
  IF i > Len(stats) THEN map
  ELSE deviceForEachStat(deviceMapAdd(map, stats[i]), stats, i + 1)

\* for (const campaign of campaigns): a campaign without device_performance
\* is skipped
RECURSIVE aggregatedDataMap(_, _, _)
aggregatedDataMap(map, campaigns, c) ==
  IF c > Len(campaigns) THEN map
  ELSE IF campaigns[c].device_performance = NULL
       THEN aggregatedDataMap(map, campaigns, c + 1)
       ELSE aggregatedDataMap(
              deviceForEachStat(map, campaigns[c].device_performance[1], 1),
              campaigns, c + 1)

deviceZeroTotals ==
  [impressions |-> Zero, clicks |-> Zero, conversions |-> Zero, spend |-> Zero,
   revenue |-> Zero]

\* deviceEmitted with a spend or a revenue sufficing
deviceEmittedOnAnyTotal(data) ==
  \/ JsGt(data.impressions, Zero) \/ JsGt(data.clicks, Zero)
  \/ JsGt(data.conversions, Zero)
  \/ JsGt(data.spend, Zero) \/ JsGt(data.revenue, Zero)

\* whether the totals of a device make it into the results
deviceEmitted(data) ==
  JsGt(data.impressions, Zero) \/ JsGt(data.clicks, Zero) \/ JsGt(data.conversions, Zero)

\* the entry pushed to results for a device
deviceResult(device, data) ==
  LET average_ctr == IF JsGt(data.impressions, Zero)
                     THEN JsMul(JsDiv(data.clicks, data.impressions), Whole(100))
                     ELSE Zero
      average_conversion_rate == IF JsGt(data.clicks, Zero)
                                 THEN JsMul(JsDiv(data.conversions, data.clicks), Whole(100))
                                 ELSE Zero
  IN  [device |-> device,
       total_impressions |-> data.impressions,
       total_clicks |-> data.clicks,
       total_conversions |-> data.conversions,
       total_spend |-> Round2(data.spend),
       total_revenue |-> Round2(data.revenue),
       average_ctr |-> Round2(average_ctr),
       average_conversion_rate |-> Round2(average_conversion_rate)]

\* new Map(...) reused from the earlier invocation when there was one
reusedAggregatedDataMap(earlier) ==
  IF earlier # <<>> THEN earlier
  ELSE <<[key |-> Mobile, val |-> deviceZeroTotals],
         [key |-> Desktop, val |-> deviceZeroTotals]>>

\* new Map(...): the accumulator is created by the invocation with both
\* devices at zero, whatever accumulator an earlier invocation built
newAggregatedDataMap(earlier) ==
  <<[key |-> Mobile, val |-> deviceZeroTotals],
    [key |-> Desktop, val |-> deviceZeroTotals]>>

\* the results pushed from a filled aggregatedDataMap
deviceResultsOf(map) ==
  LET Emitted(entry) == deviceEmitted(entry.val)
      kept == Filter(map, Emitted)
  IN  [i \in 1..Len(kept) |-> deviceResult(kept[i].key, kept[i].val)]

restructureDevicePerformance(campaigns) ==
  IF Len(campaigns) = 0 THEN <<>>
  ELSE deviceResultsOf(aggregatedDataMap(newAggregatedDataMap(<<>>), campaigns, 1))

\* The JSON body of a response: an array (type "array", its elements in
\* items), an object (type "object"; data and campaigns hold the array found
\* under that key, or NULL when the key is missing or holds no array), or null
\* (type "null").
ArrayBody(items) ==
  [type |-> "array", items |-> items, data |-> NULL, campaigns |-> NULL]

ObjectBody(data, campaigns) ==
  [type |-> "object", items |-> <<>>, data |-> data, campaigns |-> campaigns]

NullBody == [type |-> "null", items |-> <<>>, data |-> NULL, campaigns |-> NULL]

\* What the data source answers to the device page's request.
\*   kind "network": fetch() itself rejects;  kind "http": a response that is
\*   not ok, with its status and body text;  kind "badjson": an ok response whose
\*   body is not JSON;  kind "json": an ok response with a JSON body.
DeviceResponse(kind, status, text, body) ==
  [kind |-> kind, status |-> status, text |-> text, body |-> body]

\* the arrays found inside an object body: none, or the lists of one campaign
\* with one record
WrappedCampaignLists ==
  {<<>>} \cup {<<Campaign(Zero, Zero, <<>>, <<>>, Some(<<r>>), <<>>)>> : r \in DeviceRecords}

\* the object bodies: an array under data, under campaigns, under both or
\* under neither
ObjectBodies ==
  {ObjectBody(NULL, NULL)}
  \cup {ObjectBody(Some(cs), NULL) : cs \in WrappedCampaignLists}
  \cup {ObjectBody(NULL, Some(cs)) : cs \in WrappedCampaignLists}
  \cup {ObjectBody(Some(cs), Some(<<NoDeviceCampaign>>)) : cs \in WrappedCampaignLists}

DeviceResponses ==
  {DeviceResponse("network", "", <<>>, NullBody),
   DeviceResponse("badjson", "200", <<>>, NullBody),
   DeviceResponse("http", "500", <<"I","n","t","e","r","n","a","l">>, NullBody),
   DeviceResponse("http", "404", <<>>, NullBody),
   DeviceResponse("json", "200", <<>>, NullBody)}
  \cup {DeviceResponse("json", "200", <<>>, ArrayBody(cs)) : cs \in DeviceCampaignLists}
  \cup {DeviceResponse("json", "200", <<>>, body) : body \in ObjectBodies}

\* errorText.substring(0, 100)
Substring100(t) == IF Len(t) <= 100 THEN t ELSE SubSeq(t, 1, 100)

\* fetchRawDataFromExistingApi without the test of the campaigns key
fetchRawDataWithoutCampaignsKey(resp) ==
  CASE resp.kind = "network" ->
         [threw |-> TRUE, isError |-> TRUE, message |-> <<"fetch failed">>, value |-> <<>>]
    [] resp.kind = "http" ->
         [threw |-> TRUE, isError |-> TRUE,
          message |-> <<"Failed to fetch raw campaign data (Status: ", resp.status,
                        ", Message: ">> \o Substring100(resp.text) \o <<")">>,
          value |-> <<>>]
    [] resp.kind = "badjson" ->
         [threw |-> TRUE, isError |-> TRUE, message |-> <<"Unexpected token in JSON">>,
          value |-> <<>>]
    [] resp.kind = "json" ->
         [threw |-> FALSE, isError |-> FALSE, message |-> <<>>,
          value |-> IF resp.body.type = "array" THEN resp.body.items
                    ELSE IF resp.body.type = "object" /\ resp.body.data # NULL
                    THEN resp.body.data[1]
                    ELSE <<>>]

\* fetchRawDataFromExistingApi: what it throws, or the array it returns
fetchRawDataFromExistingApi(resp) ==
  CASE resp.kind = "network" ->
         [threw |-> TRUE, isError |-> TRUE, message |-> <<"fetch failed">>, value |-> <<>>]
    [] resp.kind = "http" ->
         [threw |-> TRUE, isError |-> TRUE,
          message |-> <<"Failed to fetch raw campaign data (Status: ", resp.status,
                        ", Message: ">> \o Substring100(resp.text) \o <<")">>,
          value |-> <<>>]
    [] resp.kind = "badjson" ->
         [threw |-> TRUE, isError |-> TRUE, message |-> <<"Unexpected token in JSON">>,
          value |-> <<>>]
    [] resp.kind = "json" ->
         [threw |-> FALSE, isError |-> FALSE, message |-> <<>>,
          value |-> IF resp.body.type = "array" THEN resp.body.items
                    ELSE IF resp.body.type = "object" /\ resp.body.data # NULL
                    THEN resp.body.data[1]
                    ELSE IF resp.body.type = "object" /\ resp.body.campaigns # NULL
                    THEN resp.body.campaigns[1]
                    ELSE <<>>]

\* deviceData.find(d => d.device === device): NULL when there is none
deviceFind(list, device) ==
  LET Is(d) == d.device = device
      found == Filter(list, Is)
  IN  IF found = <<>> THEN NULL ELSE Some(found[1])

\* deviceComparison dividing by the Desktop revenue as it is, zero or not
deviceComparisonByDesktopRevenue(mobileData, desktopData) ==
  LET revenueComparison == JsSub(mobileData.total_revenue, desktopData.total_revenue)
      totalRevenue == JsAdd(mobileData.total_revenue, desktopData.total_revenue)
      mobileRevenuePercent ==
        IF JsGt(totalRevenue, Zero)
        THEN JsMul(JsDiv(mobileData.total_revenue, totalRevenue), Whole(100)) ELSE Zero
      deltaBaseRevenue == desktopData.total_revenue
      deltaPercent == JsMul(JsDiv(JsAbs(revenueComparison), deltaBaseRevenue), Whole(100))
      isMobileLeader == JsGt(mobileData.total_revenue, desktopData.total_revenue)
  IN  [revenueComparison |-> revenueComparison,
       mobileRevenuePercent |-> mobileRevenuePercent,
       deltaBaseRevenue |-> deltaBaseRevenue,
       deltaPercent |-> deltaPercent,
       isMobileLeader |-> isMobileLeader,
       leadCard |->
         [title |-> IF isMobileLeader THEN "Mobile Revenue Lead" ELSE "Desktop Revenue Lead",
          value |-> JsAbs(revenueComparison),
          icon |-> IF JsGe(revenueComparison, Zero) THEN "ArrowUp" ELSE "ArrowDown",
          description |-> [text |-> IF isMobileLeader THEN "Mobile leads by "
                                    ELSE "Desktop leads by ",
                           percent |-> ToFixed(deltaPercent, 10)],
          color |-> IF JsGe(revenueComparison, Zero) THEN "text-green-500"
                    ELSE "text-red-500"],
       chartData |->
         <<[metric |-> "Revenue", Mobile |-> mobileData.total_revenue,
            Desktop |-> desktopData.total_revenue],
           [metric |-> "Conversions", Mobile |-> mobileData.total_conversions,
            Desktop |-> desktopData.total_conversions],
           [metric |-> "Total Spend", Mobile |-> mobileData.total_spend,
            Desktop |-> desktopData.total_spend]>>]

\* the comparison of DeviceViewPage, computed when both devices are present
deviceComparison(mobileData, desktopData) ==
  LET revenueComparison == JsSub(mobileData.total_revenue, desktopData.total_revenue)
      totalRevenue == JsAdd(mobileData.total_revenue, desktopData.total_revenue)
      mobileRevenuePercent ==
        IF JsGt(totalRevenue, Zero)
        THEN JsMul(JsDiv(mobileData.total_revenue, totalRevenue), Whole(100)) ELSE Zero
      deltaBaseRevenue == IF JsEq(desktopData.total_revenue, Zero)
                          THEN Whole(1) ELSE desktopData.total_revenue
      deltaPercent == JsMul(JsDiv(JsAbs(revenueComparison), deltaBaseRevenue), Whole(100))
      isMobileLeader == JsGt(mobileData.total_revenue, desktopData.total_revenue)
  IN  [revenueComparison |-> revenueComparison,
       mobileRevenuePercent |-> mobileRevenuePercent,
       deltaBaseRevenue |-> deltaBaseRevenue,
       deltaPercent |-> deltaPercent,
       isMobileLeader |-> isMobileLeader,
       leadCard |->
         [title |-> IF isMobileLeader THEN "Mobile Revenue Lead" ELSE "Desktop Revenue Lead",
          value |-> JsAbs(revenueComparison),
          icon |-> IF JsGe(revenueComparison, Zero) THEN "ArrowUp" ELSE "ArrowDown",
          description |-> [text |-> IF isMobileLeader THEN "Mobile leads by "
                                    ELSE "Desktop leads by ",
                           percent |-> ToFixed(deltaPercent, 10)],
          color |-> IF JsGe(revenueComparison, Zero) THEN "text-green-500"
                    ELSE "text-red-500"],
       chartData |->
         <<[metric |-> "Revenue", Mobile |-> mobileData.total_revenue,
            Desktop |-> desktopData.total_revenue],
           [metric |-> "Conversions", Mobile |-> mobileData.total_conversions,
            Desktop |-> desktopData.total_conversions],
           [metric |-> "Total Spend", Mobile |-> mobileData.total_spend,
            Desktop |-> desktopData.total_spend]>>]

\* DevicePageContent warning only when both devices are missing
DevicePageContentWarningForBoth(err, data) ==
  LET mobileData == deviceFind(data, Mobile)
      desktopData == deviceFind(data, Desktop)
  IN  IF err # NULL
      THEN [message |-> "Data Fetch Error", availableDevices |-> <<>>,
            comparison |-> NULL]
      ELSE IF mobileData = NULL /\ desktopData = NULL
      THEN [message |-> "Data Warning: Missing Key Device",
            availableDevices |-> [i \in 1..Len(data) |-> data[i].device],
            comparison |-> NULL]
      ELSE [message |-> "none", availableDevices |-> <<>>,
            comparison |->
              IF mobileData = NULL THEN Some(deviceComparison(desktopData[1], desktopData[1]))
              ELSE IF desktopData = NULL
              THEN Some(deviceComparison(mobileData[1], mobileData[1]))
              ELSE Some(deviceComparison(mobileData[1], desktopData[1]))]

\* what DeviceViewPage puts on the page: the error box, the missing-device
\* warning, or the summary cards and the chart
DevicePageContent(err, data) ==
  LET mobileData == deviceFind(data, Mobile)
      desktopData == deviceFind(data, Desktop)
  IN  IF err # NULL
      THEN [message |-> "Data Fetch Error", availableDevices |-> <<>>,
            comparison |-> NULL]
      ELSE IF mobileData = NULL \/ desktopData = NULL
      THEN [message |-> "Data Warning: Missing Key Device",
            availableDevices |-> [i \in 1..Len(data) |-> data[i].device],
            comparison |-> NULL]
      ELSE [message |-> "none", availableDevices |-> <<>>,
            comparison |-> Some(deviceComparison(mobileData[1], desktopData[1]))]

----------------------------------------------------------------------------
(* Geo lookup *)

\* A GeoPosition; a field is a one-element sequence, or NULL for undefined
GeoPosition(lat, lon, color) == [lat |-> Some(lat), lon |-> Some(lon), color |-> Some(color)]

REGION_COORDINATES ==
  <<[key |-> <<"A","b","u"," ","D","h","a","b","i">>,
     val |-> GeoPosition(Num(24466667, 1000000), Num(54366669, 1000000), "#f87171")],
    [key |-> <<"D","u","b","a","i">>,
     val |-> GeoPosition(Num(25276987, 1000000), Num(55296249, 1000000), "#f87171")],
    [key |-> <<"S","h","a","r","j","a","h">>,
     val |-> GeoPosition(Num(25357125, 1000000), Num(55405167, 1000000), "#f87171")],
    [key |-> <<"R","i","y","a","d","h">>,
     val |-> GeoPosition(Num(24713552, 1000000), Num(46675296, 1000000), "#f87171")],
    [key |-> <<"D","o","h","a">>,
     val |-> GeoPosition(Num(252854, 10000), Num(515310, 10000), "#f87171")],
    [key |-> <<"K","u","w","a","i","t"," ","C","i","t","y">>,
     val |-> GeoPosition(Num(293759, 10000), Num(479774, 10000), "#f87171")],
    [key |-> <<"M","a","n","a","m","a">>,
     val |-> GeoPosition(Num(262285, 10000), Num(505860, 10000), "#f87171")],
    [key |-> <<"N","e","w"," ","Y","o","r","k">>,
     val |-> GeoPosition(Num(40712776, 1000000), Num(-74005974, 1000000), "#4ade80")],
    [key |-> <<"C","a","l","i","f","o","r","n","i","a">>,
     val |-> GeoPosition(Num(36778259, 1000000), Num(-119417931, 1000000), "#4ade80")],
    [key |-> <<"T","o","r","o","n","t","o">>,
     val |-> GeoPosition(Num(436532, 10000), Num(-793832, 10000), "#4ade80")],
    [key |-> <<"L","o","n","d","o","n">>,
     val |-> GeoPosition(Num(51507351, 1000000), Num(-127758, 1000000), "#fbbf24")],
    [key |-> <<"P","a","r","i","s">>,
     val |-> GeoPosition(Num(48856613, 1000000), Num(2352222, 1000000), "#fbbf24")],
    [key |-> <<"B","e","r","l","i","n">>,
     val |-> GeoPosition(Num(52520008, 1000000), Num(13404954, 1000000), "#fbbf24")],
    [key |-> <<"S","i","n","g","a","p","o","r","e">>,
     val |-> GeoPosition(Num(1352083, 1000000), Num(103819836, 1000000), "#60a5fa")],
    [key |-> <<"T","o","k","y","o">>,
     val |-> GeoPosition(Num(35689487, 1000000), Num(139691711, 1000000), "#60a5fa")],
    [key |-> <<"C","a","i","r","o">>,
     val |-> GeoPosition(Num(30033333, 1000000), Num(31233334, 1000000), "#a78bfa")]>>

\* the properties every plain object inherits from Object.prototype
ObjectPrototypeProperties ==
  {<<"c","o","n","s","t","r","u","c","t","o","r">>,
   <<"t","o","S","t","r","i","n","g">>,
   <<"t","o","L","o","c","a","l","e","S","t","r","i","n","g">>,
   <<"v","a","l","u","e","O","f">>,
   <<"h","a","s","O","w","n","P","r","o","p","e","r","t","y">>,
   <<"i","s","P","r","o","t","o","t","y","p","e","O","f">>,
   <<"p","r","o","p","e","r","t","y","I","s","E","n","u","m","e","r","a","b","l","e">>,
   <<"_","_","p","r","o","t","o","_","_">>,
   <<"_","_","d","e","f","i","n","e","G","e","t","t","e","r","_","_">>,
   <<"_","_","d","e","f","i","n","e","S","e","t","t","e","r","_","_">>,
   <<"_","_","l","o","o","k","u","p","G","e","t","t","e","r","_","_">>,
   <<"_","_","l","o","o","k","u","p","S","e","t","t","e","r","_","_">>}

\* getCoordinates(region): REGION_COORDINATES[region] || fallback.  The lookup
\* finds the table's own entry, or else a member inherited from
\* Object.prototype, a truthy value that has no lat, lon or color.
getCoordinates(region) ==
  LET i == KeyIndex(REGION_COORDINATES, region)
  IN  IF i # 0 THEN REGION_COORDINATES[i].val
      ELSE IF region \in ObjectPrototypeProperties
           THEN [lat |-> NULL, lon |-> NULL, color |-> NULL]
           ELSE GeoPosition(Zero, Zero, "#94a3b8")

----------------------------------------------------------------------------
(* Regional view: aggregation with geo enrichment *)

Dubai    == <<"D","u","b","a","i">>
Riyadh   == <<"R","i","y","a","d","h">>
Atlantis == <<"A","t","l","a","n","t","i","s">>

\* the (region, country) pairs of the explored records: two regions of the geo
\* table, one that is not in it, and one named like an inherited property
RegionNames ==
  {[region |-> Dubai, country |-> <<"U","A","E">>],
   [region |-> Riyadh, country |-> <<"S","a","u","d","i"," ","A","r","a","b","i","a">>],
   [region |-> Atlantis, country |-> <<"X","X">>],
   [region |-> <<"c","o","n","s","t","r","u","c","t","o","r">>, country |-> <<"X","X">>]}

RegionalRecords ==
  {[region |-> rn.region, country |-> rn.country, impressions |-> e.impressions,
    clicks |-> e.clicks, conversions |-> e.conversions, spend |-> m.spend,
    revenue |-> m.revenue] :
     rn \in RegionNames, e \in FunnelCounts, m \in Financials}

RegionalCampaignLists ==
  {<<>>} \cup
  {[j \in 1..Len(p) |-> Campaign(Zero, Zero, <<>>, <<>>, <<>>, p[j])] :
     p \in Distributions(RegionalRecords)}

\* initialRegionResult with no name in place of a top region
initialRegionResultUnnamed ==
  [totalRevenue |-> Zero, totalSpend |-> Zero, averageRoas |-> Zero,
   topRegion |-> <<>>, revenueMapData |-> <<>>, spendMapData |-> <<>>]

initialRegionResult ==
  [totalRevenue |-> Zero, totalSpend |-> Zero, averageRoas |-> Zero,
   topRegion |-> <<"N","/","A">>, revenueMapData |-> <<>>, spendMapData |-> <<>>]

regionKey(region) == region.region \o <<"-">> \o region.country

\* a group seeded by writing the zeros and the coordinates into the record
\* itself instead of into a copy of it
regionalSeedInTheRecord(key, region, pos) ==
  [key |-> key, isTheRecord |-> TRUE,
   val |-> [region |-> region.region, country |-> region.country,
            impressions |-> Zero, clicks |-> Zero, conversions |-> Zero,
            spend |-> Zero, revenue |-> Zero,
            roas |-> Zero, cpa |-> Zero, cpc |-> Zero,
            ctr |-> Zero, conversionRate |-> Zero,
            latitude |-> pos.lat, longitude |-> pos.lon]]

\* regionalMap[key] = { ...region, impressions: 0, ..., latitude, longitude }:
\* the group is a new object holding a copy of the record's fields, it is not
\* the record
regionalSeed(key, region, pos) ==
  [key |-> key, isTheRecord |-> FALSE,
   val |-> [region |-> region.region, country |-> region.country,
            impressions |-> Zero, clicks |-> Zero, conversions |-> Zero,
            spend |-> Zero, revenue |-> Zero,
            roas |-> Zero, cpa |-> Zero, cpc |-> Zero,
            ctr |-> Zero, conversionRate |-> Zero,
            latitude |-> pos.lat, longitude |-> pos.lon]]

\* the body of campaign.regional_performance.forEach
regionalMapAdd(map, region) ==
  LET key == regionKey(region)
      i   == KeyIndex(map, key)
      pos == getCoordinates(region.region)
      m1  == IF i = 0 THEN Append(map, regionalSeed(key, region, pos)) ELSE map
      j   == IF i = 0 THEN Len(m1) ELSE i
  IN  [m1 EXCEPT ![j].val =
         [@ EXCEPT !.impressions = JsAdd(@, ToNumber(region.impressions)),
                   !.clicks      = JsAdd(@, ToNumber(region.clicks)),
                   !.conversions = JsAdd(@, ToNumber(region.conversions)),
                   !.spend       = JsAdd(@, ToNumber(region.spend)),
                   !.revenue     = JsAdd(@, ToNumber(region.revenue))]]

RECURSIVE regionalForEachRegion(_, _, _)
regionalForEachRegion(map, regions, i) ==
  IF i > Len(regions) THEN map
  ELSE regionalForEachRegion(regionalMapAdd(map, regions[i]), regions, i + 1)

RECURSIVE regionalMap(_, _, _)
regionalMap(map, campaigns, c) ==
  IF c > Len(campaigns) THEN map
  ELSE regionalMap(regionalForEachRegion(map, campaigns[c].regional_performance, 1),
                   campaigns, c + 1)

\* regionalRates dividing by the conversions without looking at them
regionalRatesUnguarded(totals) ==
  [totals EXCEPT
     !.ctr = IF JsGt(totals.impressions, Zero)
             THEN JsDiv(totals.clicks, totals.impressions) ELSE Zero,
     !.conversionRate = IF JsGt(totals.clicks, Zero)
                        THEN JsDiv(totals.conversions, totals.clicks) ELSE Zero,
     !.cpc = IF JsGt(totals.clicks, Zero)
             THEN JsDiv(totals.spend, totals.clicks) ELSE Zero,
     !.cpa = JsDiv(totals.spend, totals.conversions),
     !.roas = IF JsGt(totals.spend, Zero)
              THEN JsDiv(totals.revenue, totals.spend) ELSE Zero]

\* the derived rates of one regional group
regionalRates(totals) ==
  [totals EXCEPT
     !.ctr = IF JsGt(totals.impressions, Zero)
             THEN JsDiv(totals.clicks, totals.impressions) ELSE Zero,
     !.conversionRate = IF JsGt(totals.clicks, Zero)
                        THEN JsDiv(totals.conversions, totals.clicks) ELSE Zero,
     !.cpc = IF JsGt(totals.clicks, Zero)
             THEN JsDiv(totals.spend, totals.clicks) ELSE Zero,
     !.cpa = IF JsGt(totals.conversions, Zero)
             THEN JsDiv(totals.spend, totals.conversions) ELSE Zero,
     !.roas = IF JsGt(totals.spend, Zero)
              THEN JsDiv(totals.revenue, totals.spend) ELSE Zero]

\* item.latitude !== 0 || item.longitude !== 0 (undefined is not 0)
hasCoordinates(item) ==
  \/ item.latitude = NULL \/ ~JsEq(item.latitude[1], Zero)
  \/ item.longitude = NULL \/ ~JsEq(item.longitude[1], Zero)

\* const regionalMap = {}: created by the invocation
newRegionalMap(earlier) == <<>>

\* regionalListOf keeping the groups without coordinates
regionalListUnfiltered(map) ==
  LET values == ObjectValues(map)
  IN  [i \in 1..Len(values) |-> regionalRates(values[i])]

\* the groups of a filled regionalMap, rated, those without coordinates dropped
regionalListOf(map) ==
  LET values == ObjectValues(map)
      rated  == [i \in 1..Len(values) |-> regionalRates(values[i])]
  IN  Filter(rated, hasCoordinates)

finalRegionalList(campaigns) ==
  regionalListOf(regionalMap(newRegionalMap(<<>>), campaigns, 1))

\* a comparator that leaves the list as it is
revenueNeverBefore(a, b) == FALSE

revenueDescending(a, b) == JsGt(Zero, JsSub(b.revenue, a.revenue))

\* a point of a bubble map
mapPoint(item, value) ==
  LET color == getCoordinates(item.region).color
  IN  [region |-> item.region, country |-> item.country, value |-> value,
       color |-> IF color # NULL THEN color[1] ELSE "#94a3b8",
       latitude |-> item.latitude, longitude |-> item.longitude]

\* finalRegionalList.sort((a, b) => b.revenue - a.revenue)
sortedRegionalList(list) == StableSort(list, revenueDescending)

\* sorted[0]?.region || 'N/A'
topRegion(sorted) ==
  IF Len(sorted) > 0 /\ sorted[1].region # <<>> THEN sorted[1].region
  ELSE <<"N","/","A">>

\* regionResult with the total revenue over the total spend as the average
regionResultRoasOfTotals(list) ==
  LET Revenue(item) == item.revenue
      Spend(item) == item.spend
      Roas(item) == item.roas
      RevenuePoint(item) == mapPoint(item, item.revenue)
      SpendPoint(item) == mapPoint(item, item.spend)
  IN  [totalRevenue |-> ReduceSum(list, Revenue),
       totalSpend |-> ReduceSum(list, Spend),
       averageRoas |-> SafeRatio(ReduceSum(list, Revenue), ReduceSum(list, Spend)),
       topRegion |-> topRegion(sortedRegionalList(list)),
       revenueMapData |-> MapSeq(sortedRegionalList(list), RevenuePoint),
       spendMapData |-> MapSeq(sortedRegionalList(list), SpendPoint)]

\* the totals, computed over the filtered list, and the map data, read from
\* the list once it is sorted
regionResult(list) ==
  LET Revenue(item) == item.revenue
      Spend(item) == item.spend
      Roas(item) == item.roas
      RevenuePoint(item) == mapPoint(item, item.revenue)
      SpendPoint(item) == mapPoint(item, item.spend)
  IN  [totalRevenue |-> ReduceSum(list, Revenue),
       totalSpend |-> ReduceSum(list, Spend),
       averageRoas |-> IF Len(list) > 0
                       THEN JsDiv(ReduceSum(list, Roas), Whole(Len(list)))
                       ELSE Zero,
       topRegion |-> topRegion(sortedRegionalList(list)),
       revenueMapData |-> MapSeq(sortedRegionalList(list), RevenuePoint),
       spendMapData |-> MapSeq(sortedRegionalList(list), SpendPoint)]

\* whether the record at place i of campaign c is the first of its key
isFirstOfKey(campaigns, c, i) ==
  LET key == regionKey(campaigns[c].regional_performance[i])
  IN  /\ \A j \in 1..(i - 1) : regionKey(campaigns[c].regional_performance[j]) # key
      /\ \A b \in 1..(c - 1) :
           \A j \in 1..Len(campaigns[b].regional_performance) :
             regionKey(campaigns[b].regional_performance[j]) # key

\* a record as the accumulation leaves it: the first record of a key holds the
\* totals of its group when the group is the record itself, every other
\* record is as it was
regionalRecordAfter(map, record, first) ==
  LET entry == map[KeyIndex(map, regionKey(record))]
  IN  IF first /\ entry.isTheRecord
      THEN [record EXCEPT !.impressions = entry.val.impressions,
                          !.clicks = entry.val.clicks,
                          !.conversions = entry.val.conversions,
                          !.spend = entry.val.spend,
                          !.revenue = entry.val.revenue]
      ELSE record

\* the campaign list the state holds once the aggregation has run on it
regionalInputWith(map, campaigns) ==
  [c \in 1..Len(campaigns) |->
     [campaigns[c] EXCEPT !.regional_performance =
        [i \in 1..Len(campaigns[c].regional_performance) |->
           regionalRecordAfter(map, campaigns[c].regional_performance[i],
                               isFirstOfKey(campaigns, c, i))]]]

regionalInputAfter(campaigns) ==
  IF Len(campaigns) = 0 THEN campaigns
  ELSE regionalInputWith(regionalMap(newRegionalMap(<<>>), campaigns, 1), campaigns)

\* the useMemo callback of RegionView
RegionAggregate(data) ==
  IF data = NULL \/ Len(data[1].campaigns) = 0 THEN initialRegionResult
  ELSE regionResult(finalRegionalList(data[1].campaigns))

----------------------------------------------------------------------------
(* The pages and their data loading *)

\* what a rejected fetch throws: an Error carrying a message, or another value
Thrown == {[isError |-> TRUE, message |-> <<"Network request failed">>],
           [isError |-> TRUE, message |-> <<"HTTP 500">>],
           [isError |-> FALSE, message |-> <<"timeout">>]}

\* WeeklyView's render: the loading screen, or the cards and charts (the
\* component keeps no error state and renders no error message)
WeeklyRender(isLoading, agg) ==
  IF isLoading THEN [screen |-> "loading", errorMessage |-> NULL, content |-> NULL]
  ELSE [screen |-> "page", errorMessage |-> NULL, content |-> Some(agg)]

\* the fetch of a page: not issued yet, in flight, resolved or rejected
NotFetched == [status |-> "none", value |-> NULL]
Pending == [status |-> "pending", value |-> NULL]
Fulfilled(data) == [status |-> "fulfilled", value |-> data]
Rejected(err) == [status |-> "rejected", value |-> err]

ClientPages == {"weekly", "demographic", "region"}

\* a memo that runs its callback on every render
depsNeverCompared(prev, next) == TRUE

\* useMemo(..., [marketingData]) on a render: the callback runs again when the
\* dependency is not the one of the last render
depsChanged(prev, next) == prev # next

\* useEffect(() => { loadData() }, []): the effect of a client view runs once,
\* after the first render, and loadData issues the fetch (RegionView's loadData
\* sets loading, which is true already)
LoadDataStart ==
  /\ page \in ClientPages
  /\ fetched.status = "none"
  /\ fetches' = fetches + 1
  /\ fetched' = Pending
  /\ loading' = IF page = "region" THEN TRUE ELSE loading
  /\ UNCHANGED <<page, marketingData, error, aggregatedData, response, rawData,
                 deviceData, view, calls, accumulators, recomputations>>

\* loadData of WeeklyView, the fetch resolving with data
WeeklyLoadDataOk ==
  /\ page = "weekly" /\ loading /\ fetched.status = "pending"
  /\ \E campaigns \in WeeklyCampaignLists :
       /\ fetched' = Fulfilled(Some([campaigns |-> campaigns]))
       /\ marketingData' = Some([campaigns |-> campaigns])
  /\ loading' = FALSE
  /\ aggregatedData' = IF depsChanged(marketingData, marketingData')
                       THEN WeeklyAggregate(marketingData') ELSE aggregatedData
  /\ recomputations' = IF depsChanged(marketingData, marketingData')
                       THEN recomputations + 1 ELSE recomputations
  /\ view' = WeeklyRender(loading', aggregatedData')
  /\ UNCHANGED <<page, error, response, rawData, deviceData, calls, accumulators,
                 fetches>>

\* loadData of WeeklyView, the fetch rejecting: the error is only logged
WeeklyLoadDataFail ==
  /\ page = "weekly" /\ loading /\ fetched.status = "pending"
  /\ \E err \in Thrown : fetched' = Rejected(Some(err))
  /\ loading' = FALSE
  /\ marketingData' = marketingData
  /\ aggregatedData' = IF depsChanged(marketingData, marketingData')
                       THEN WeeklyAggregate(marketingData') ELSE aggregatedData
  /\ recomputations' = IF depsChanged(marketingData, marketingData')
                       THEN recomputations + 1 ELSE recomputations
  /\ view' = WeeklyRender(loading', aggregatedData')
  /\ UNCHANGED <<page, error, response, rawData, deviceData, calls, accumulators,
                 fetches>>

\* a render of DemographicView that shows the cards, charts and tables whether
\* data has been fetched or not
DemographicRenderWithoutData(isLoading, err, data, agg) ==
  IF isLoading THEN [screen |-> "loading", errorMessage |-> NULL, content |-> NULL]
  ELSE [screen |-> "page", errorMessage |-> err, content |-> Some(agg)]

\* DemographicView's render: the loading screen; else the error banner in place
\* of the title when error is set, and the cards, charts and tables when
\* marketingData is set
DemographicRender(isLoading, err, data, agg) ==
  IF isLoading THEN [screen |-> "loading", errorMessage |-> NULL, content |-> NULL]
  ELSE [screen |-> "page", errorMessage |-> err,
        content |-> IF data # NULL THEN Some(agg) ELSE NULL]

\* loadData of DemographicView, the fetch resolving with data
DemographicLoadDataOk ==
  /\ page = "demographic" /\ loading /\ fetched.status = "pending"
  /\ \E campaigns \in DemographicCampaignLists :
       /\ fetched' = Fulfilled(Some([campaigns |-> campaigns]))
       /\ marketingData' = Some([campaigns |-> campaigns])
  /\ loading' = FALSE
  /\ aggregatedData' = IF depsChanged(marketingData, marketingData')
                       THEN DemographicAggregate(marketingData') ELSE aggregatedData
  /\ recomputations' = IF depsChanged(marketingData, marketingData')
                       THEN recomputations + 1 ELSE recomputations
  /\ view' = DemographicRender(loading', error, marketingData', aggregatedData')
  /\ UNCHANGED <<page, error, response, rawData, deviceData, calls, accumulators,
                 fetches>>

\* loadData of DemographicView with a catch that calls loadData again
DemographicLoadDataFailRetrying ==
  /\ page = "demographic" /\ loading /\ fetched.status = "pending"
  /\ fetches < 3
  /\ \E err \in Thrown :
       error' = Some(IF err.isError THEN err.message
                     ELSE <<"Failed to load demographic data">>)
  /\ fetches' = fetches + 1
  /\ fetched' = Pending
  /\ UNCHANGED <<page, marketingData, loading, aggregatedData, response, rawData,
                 deviceData, view, calls, accumulators, recomputations>>

\* loadData of DemographicView without its finally block
DemographicLoadDataFailStillLoading ==
  /\ page = "demographic" /\ loading /\ fetched.status = "pending"
  /\ \E err \in Thrown :
       /\ fetched' = Rejected(Some(err))
       /\ error' = Some(IF err.isError THEN err.message
                        ELSE <<"Failed to load demographic data">>)
  /\ UNCHANGED <<page, marketingData, loading, aggregatedData, response, rawData,
                 deviceData, view, calls, accumulators, fetches, recomputations>>

\* loadData of DemographicView, the fetch rejecting: the message is kept in error
DemographicLoadDataFail ==
  /\ page = "demographic" /\ loading /\ fetched.status = "pending"
  /\ \E err \in Thrown :
       /\ fetched' = Rejected(Some(err))
       /\ error' = Some(IF err.isError THEN err.message
                        ELSE <<"Failed to load demographic data">>)
  /\ loading' = FALSE
  /\ marketingData' = marketingData
  /\ aggregatedData' = IF depsChanged(marketingData, marketingData')
                       THEN DemographicAggregate(marketingData') ELSE aggregatedData
  /\ recomputations' = IF depsChanged(marketingData, marketingData')
                       THEN recomputations + 1 ELSE recomputations
  /\ view' = DemographicRender(loading', error', marketingData', aggregatedData')
  /\ UNCHANGED <<page, response, rawData, deviceData, calls, accumulators, fetches>>

\* RegionView's render: the two bubble maps, whatever loading is (the
\* component keeps no error state and renders no error message)
RegionRender(agg) ==
  [screen |-> "page", errorMessage |-> NULL, content |-> Some(agg)]

\* loadData of RegionView, the fetch resolving with data; the aggregation runs
\* in the render that follows, on the object the state holds
RegionLoadDataOk ==
  /\ page = "region" /\ loading /\ fetched.status = "pending"
  /\ \E campaigns \in RegionalCampaignLists :
       /\ fetched' = Fulfilled(Some([campaigns |-> campaigns]))
       /\ marketingData' = Some([campaigns |-> regionalInputAfter(campaigns)])
  /\ loading' = FALSE
  /\ aggregatedData' = IF depsChanged(marketingData, marketingData')
                       THEN RegionAggregate(fetched'.value) ELSE aggregatedData
  /\ recomputations' = IF depsChanged(marketingData, marketingData')
                       THEN recomputations + 1 ELSE recomputations
  /\ view' = RegionRender(aggregatedData')
  /\ UNCHANGED <<page, error, response, rawData, deviceData, calls, accumulators,
                 fetches>>

\* loadData of RegionView, the fetch rejecting: the error is only logged
RegionLoadDataFail ==
  /\ page = "region" /\ loading /\ fetched.status = "pending"
  /\ \E err \in Thrown : fetched' = Rejected(Some(err))
  /\ loading' = FALSE
  /\ marketingData' = marketingData
  /\ aggregatedData' = IF depsChanged(marketingData, marketingData')
                       THEN RegionAggregate(marketingData') ELSE aggregatedData
  /\ recomputations' = IF depsChanged(marketingData, marketingData')
                       THEN recomputations + 1 ELSE recomputations
  /\ view' = RegionRender(aggregatedData')
  /\ UNCHANGED <<page, error, response, rawData, deviceData, calls, accumulators,
                 fetches>>

\* DeviceViewPage, rendered on the server: the fetch, the aggregation and the
\* page content in one run
DeviceViewPage ==
  /\ page = "device" /\ view.screen = "pending"
  /\ \E resp \in DeviceResponses :
       LET result == fetchRawDataFromExistingApi(resp)
       IN  /\ response' = Some(resp)
           /\ fetched' = IF result.threw THEN Rejected(NULL) ELSE Fulfilled(NULL)
           /\ rawData' = IF result.threw THEN <<>> ELSE result.value
           /\ error' = IF result.threw
                       THEN Some(IF result.isError THEN result.message
                                 ELSE <<"Unknown API error">>)
                       ELSE NULL
  /\ fetches' = fetches + 1
  /\ deviceData' = restructureDevicePerformance(rawData')
  /\ view' = [screen |-> "page", errorMessage |-> error',
              content |-> Some(DevicePageContent(error', deviceData'))]
  /\ UNCHANGED <<page, marketingData, loading, aggregatedData, calls, accumulators,
                 recomputations>>

Pages == {"weekly", "demographic", "device", "region"}

Init ==
  /\ page \in Pages
  /\ marketingData = NULL
  /\ error = NULL
  /\ loading = (page # "device")
  /\ aggregatedData = CASE page = "weekly" -> WeeklyAggregate(NULL)
                        [] page = "demographic" -> DemographicAggregate(NULL)
                        [] page = "region" -> RegionAggregate(NULL)
                        [] page = "device" -> NULL
  /\ response = NULL
  /\ rawData = <<>>
  /\ deviceData = <<>>
  /\ calls = <<>>
  /\ accumulators = [weekly |-> <<>>, demographic |-> <<>>, device |-> <<>>,
                     region |-> <<>>]
  /\ fetches = 0
  /\ fetched = NotFetched
  /\ recomputations = 0
  /\ view = CASE page = "weekly" -> WeeklyRender(TRUE, aggregatedData)
              [] page = "demographic" ->
                   DemographicRender(TRUE, NULL, NULL, aggregatedData)
              [] page = "region" -> RegionRender(aggregatedData)
              [] page = "device" ->
                   [screen |-> "pending", errorMessage |-> NULL, content |-> NULL]

Next ==
  \/ LoadDataStart
  \/ WeeklyLoadDataOk
  \/ WeeklyLoadDataFail
  \/ DemographicLoadDataOk
  \/ DemographicLoadDataFail
  \/ RegionLoadDataOk
  \/ RegionLoadDataFail
  \/ DeviceViewPage

Spec == Init /\ [][Next]_vars

\* The effect of a mounted client view runs, and the fetch it issues settles
\* (it resolves or it rejects): a step that can be taken is eventually taken.
FairSpec == Spec /\ WF_vars(Next)

----------------------------------------------------------------------------
(* Repeated invocation: the four aggregations called one after another, in any
   order, each on a campaign list of its own; every invocation finds the
   accumulator the aggregation's last invocation built. *)

\* a record with every count and amount at its largest
FullCounts ==
  [impressions |-> Whole(MaxCount), clicks |-> Whole(MaxCount),
   conversions |-> Whole(MaxCount)]

WeeklyCallLists ==
  {<<>>} \cup
  {<<Campaign(Zero, Zero, <<r>>, <<>>, <<>>, <<>>)>> :
     r \in {x \in WeeklyRecords :
              /\ x.impressions = Whole(MaxCount) /\ x.clicks = Whole(MaxCount)
              /\ x.conversions = Whole(MaxCount) /\ x.spend = Num(MaxMoney, 8)}}

DemographicCallLists ==
  {<<>>} \cup
  {<<Campaign(Num(MaxMoney, 8), Num(MaxMoney, 4), <<>>, <<r>>, <<>>, <<>>)>> :
     r \in {x \in DemographicRecords :
              /\ x.performance = FullCounts
              /\ x.percentage_of_audience = Whole(MaxPct)}}

DeviceCallLists ==
  {<<>>} \cup
  {<<Campaign(Zero, Zero, <<>>, <<>>, Some(<<r>>), <<>>)>> :
     r \in {CompleteMobileRecord, [CompleteMobileRecord EXCEPT !.device = Some(Desktop)]}}

RegionCallLists ==
  {<<>>} \cup
  {<<Campaign(Zero, Zero, <<>>, <<>>, <<>>, <<r>>)>> :
     r \in {x \in RegionalRecords :
              /\ x.impressions = Whole(MaxCount) /\ x.clicks = Whole(MaxCount)
              /\ x.conversions = Whole(MaxCount) /\ x.spend = Num(MaxMoney, 8)}}

\* the useMemo callback of WeeklyView run once more
CallWeekly ==
  /\ Len(calls) < MaxCalls
  /\ \E campaigns \in WeeklyCallLists :
       IF Len(campaigns) = 0
       THEN /\ calls' = Append(calls, [aggregation |-> "weekly", campaigns |-> campaigns,
                                       result |-> initialWeeklyResult])
            /\ UNCHANGED accumulators
       ELSE /\ accumulators' =
                 [accumulators EXCEPT
                    !.weekly = weeklyMap(newWeeklyMap(@), campaigns, 1)]
            /\ calls' = Append(calls,
                 [aggregation |-> "weekly", campaigns |-> campaigns,
                  result |-> weeklyResult(weeklyListOf(accumulators'.weekly))])
  /\ UNCHANGED <<page, marketingData, loading, error, aggregatedData, response,
                 rawData, deviceData, view, fetches, fetched, recomputations>>

\* the useMemo callback of DemographicView run once more
CallDemographic ==
  /\ Len(calls) < MaxCalls
  /\ \E campaigns \in DemographicCallLists :
       IF Len(campaigns) = 0
       THEN /\ calls' = Append(calls, [aggregation |-> "demographic",
                                       campaigns |-> campaigns,
                                       result |-> initialDemographicResult])
            /\ UNCHANGED accumulators
       ELSE /\ accumulators' =
                 [accumulators EXCEPT
                    !.demographic = demographicMap(newDemographicMap(@), campaigns, 1)]
            /\ calls' = Append(calls,
                 [aggregation |-> "demographic", campaigns |-> campaigns,
                  result |-> demographicResult(aggregatedListOf(accumulators'.demographic))])
  /\ UNCHANGED <<page, marketingData, loading, error, aggregatedData, response,
                 rawData, deviceData, view, fetches, fetched, recomputations>>

\* restructureDevicePerformance called once more
CallDevice ==
  /\ Len(calls) < MaxCalls
  /\ \E campaigns \in DeviceCallLists :
       IF Len(campaigns) = 0
       THEN /\ calls' = Append(calls, [aggregation |-> "device", campaigns |-> campaigns,
                                       result |-> <<>>])
            /\ UNCHANGED accumulators
       ELSE /\ accumulators' =
                 [accumulators EXCEPT
                    !.device = aggregatedDataMap(newAggregatedDataMap(@), campaigns, 1)]
            /\ calls' = Append(calls,
                 [aggregation |-> "device", campaigns |-> campaigns,
                  result |-> deviceResultsOf(accumulators'.device)])
  /\ UNCHANGED <<page, marketingData, loading, error, aggregatedData, response,
                 rawData, deviceData, view, fetches, fetched, recomputations>>

\* the useMemo callback of RegionView run once more
CallRegion ==
  /\ Len(calls) < MaxCalls
  /\ \E campaigns \in RegionCallLists :
       IF Len(campaigns) = 0
       THEN /\ calls' = Append(calls, [aggregation |-> "region", campaigns |-> campaigns,
                                       result |-> initialRegionResult])
            /\ UNCHANGED accumulators
       ELSE /\ accumulators' =
                 [accumulators EXCEPT
                    !.region = regionalMap(newRegionalMap(@), campaigns, 1)]
            /\ calls' = Append(calls,
                 [aggregation |-> "region", campaigns |-> campaigns,
                  result |-> regionResult(regionalListOf(accumulators'.region))])
  /\ UNCHANGED <<page, marketingData, loading, error, aggregatedData, response,
                 rawData, deviceData, view, fetches, fetched, recomputations>>

InitCalls == Init /\ page = "device"

NextCalls ==
  \/ CallWeekly
  \/ CallDemographic
  \/ CallDevice
  \/ CallRegion

SpecCalls == InitCalls /\ [][NextCalls]_vars

----------------------------------------------------------------------------
(* Properties of the weekly aggregation *)

\* the campaigns the page has loaded, none before the fetch resolves
LoadedCampaigns == IF marketingData = NULL THEN <<>> ELSE marketingData[1].campaigns

\* every weekly record of every campaign, in one sequence
RECURSIVE AllWeeklyRecords(_, _)
AllWeeklyRecords(campaigns, c) ==
  IF c > Len(campaigns) THEN <<>>
  ELSE campaigns[c].weekly_performance \o AllWeeklyRecords(campaigns, c + 1)

\* the sums of the five fields over the records of one week
WeeklySumsOf(records, weekStart) ==
  LET OfWeek(r) == r.week_start = weekStart
      Impressions(r) == r.impressions
      Clicks(r) == r.clicks
      Conversions(r) == r.conversions
      Spend(r) == r.spend
      Revenue(r) == r.revenue
  IN  [impressions |-> ReduceSum(Filter(records, OfWeek), Impressions),
       clicks |-> ReduceSum(Filter(records, OfWeek), Clicks),
       conversions |-> ReduceSum(Filter(records, OfWeek), Conversions),
       spend |-> ReduceSum(Filter(records, OfWeek), Spend),
       revenue |-> ReduceSum(Filter(records, OfWeek), Revenue)]

WeeklyGroupsMatch(records, groups) ==
  /\ Len(groups) = Cardinality({records[i].week_start : i \in 1..Len(records)})
  /\ {groups[i].weekStart : i \in 1..Len(groups)}
       = {records[i].week_start : i \in 1..Len(records)}
  /\ \A i \in 1..Len(groups) :
       [impressions |-> groups[i].impressions, clicks |-> groups[i].clicks,
        conversions |-> groups[i].conversions, spend |-> groups[i].spend,
        revenue |-> groups[i].revenue] = WeeklySumsOf(records, groups[i].weekStart)

WeeklyTotalsMatch(records, agg) ==
  LET Spend(r) == r.spend
      Revenue(r) == r.revenue
      Value(point) == point.value
  IN  /\ agg.totalSpend = ReduceSum(records, Spend)
      /\ agg.totalRevenue = ReduceSum(records, Revenue)
      /\ ReduceSum(agg.spendChartData, Value) = ReduceSum(records, Spend)
      /\ ReduceSum(agg.revenueChartData, Value) = ReduceSum(records, Revenue)

\* C1: the weekly aggregation has exactly one group per distinct week_start of
\* the loaded campaigns, each group's impressions, clicks, conversions, spend
\* and revenue are the sums of those fields over all weekly records of that
\* week, and totalSpend and totalRevenue are the sums of spend and revenue over
\* every weekly record of every campaign.
C1_WeeklySumPreservation ==
  page = "weekly" =>
    /\ WeeklyGroupsMatch(AllWeeklyRecords(LoadedCampaigns, 1),
                         finalWeeklyList(LoadedCampaigns))
    /\ WeeklyTotalsMatch(AllWeeklyRecords(LoadedCampaigns, 1), aggregatedData)

\* two campaigns with one record each for the same week, both with a spend:
\* one group holding the sum
C1_Witness ==
  /\ page = "weekly" /\ ~loading
  /\ Len(LoadedCampaigns) = 2
  /\ Len(finalWeeklyList(LoadedCampaigns)) = 1
  /\ \A c \in 1..2 : /\ Len(LoadedCampaigns[c].weekly_performance) = 1
                     /\ LoadedCampaigns[c].weekly_performance[1].spend = Num(1, 8)
  /\ aggregatedData.totalSpend = Num(1, 4)
  /\ finalWeeklyList(LoadedCampaigns)[1].spend = Num(1, 4)

----------------------------------------------------------------------------
(* Properties of the demographic aggregation *)

\* the sum of percentage_of_audience over the records of a campaign
PercentageSum(campaign) ==
  LET Pct(b) == b.percentage_of_audience
  IN  ReduceSum(campaign.demographic_breakdown, Pct)

\* spend * percentage_of_audience / totalAudiencePercentage
ShareOf(amount, campaign, breakdown) ==
  JsDiv(JsMul(amount, breakdown.percentage_of_audience), PercentageSum(campaign))

SpendIsDistributed(campaign) ==
  LET DistributedSpend(b) == distributedSpend(campaign, b)
      DistributedRevenue(b) == distributedRevenue(campaign, b)
      records == campaign.demographic_breakdown
  IN  IF JsGt(PercentageSum(campaign), Zero)
      THEN /\ ReduceSum(records, DistributedSpend) = campaign.spend
           /\ ReduceSum(records, DistributedRevenue) = campaign.revenue
           /\ \A i \in 1..Len(records) :
                /\ distributedSpend(campaign, records[i])
                     = ShareOf(campaign.spend, campaign, records[i])
                /\ distributedRevenue(campaign, records[i])
                     = ShareOf(campaign.revenue, campaign, records[i])
      ELSE /\ ReduceSum(records, DistributedSpend) = Zero
           /\ ReduceSum(records, DistributedRevenue) = Zero

\* C2: for every campaign of the demographic page, the distributed spend of its
\* demographic records adds up to the campaign's spend when its percentages add
\* up to more than 0 and to 0 when they add up to 0, likewise the revenue, and
\* each record's share is spend * percentage_of_audience / the percentage sum.
C2_DistributionPreservesSpend ==
  page = "demographic" =>
    \A c \in 1..Len(LoadedCampaigns) : SpendIsDistributed(LoadedCampaigns[c])

\* a campaign with a spend whose two records hold one third and two thirds of
\* the audience, the groups of the page receiving 1/24 and 1/12 of the 1/8
C2_Witness ==
  /\ page = "demographic" /\ ~loading
  /\ Len(LoadedCampaigns) = 1
  /\ LoadedCampaigns[1].spend = Num(1, 8)
  /\ Len(LoadedCampaigns[1].demographic_breakdown) = 2
  /\ LoadedCampaigns[1].demographic_breakdown[1].percentage_of_audience = Whole(1)
  /\ LoadedCampaigns[1].demographic_breakdown[2].percentage_of_audience = Whole(2)
  /\ LoadedCampaigns[1].demographic_breakdown[1].gender = Male
  /\ LoadedCampaigns[1].demographic_breakdown[2].gender = Female
  /\ aggregatedData.maleMetrics.totalSpend = Num(1, 24)
  /\ aggregatedData.femaleMetrics.totalSpend = Num(1, 12)

\* every demographic record of the loaded campaigns, each with its campaign
RECURSIVE CampaignRecords(_, _)
CampaignRecords(campaigns, c) ==
  IF c > Len(campaigns) THEN <<>>
  ELSE [i \in 1..Len(campaigns[c].demographic_breakdown) |->
          [campaign |-> campaigns[c], breakdown |-> campaigns[c].demographic_breakdown[i]]]
       \o CampaignRecords(campaigns, c + 1)

\* what the records of one gender and age group are expected to add up to:
\* the engagement of all of them, and the shares of those of the campaigns
\* whose percentages add up to more than 0
ExpectedGroup(pairs, gender, age) ==
  LET OfGroup(p) == p.breakdown.gender = gender /\ p.breakdown.age_group = age
      Funded(p) == /\ OfGroup(p)
                   /\ JsGt(PercentageSum(p.campaign), Zero)
      Impressions(p) == p.breakdown.performance.impressions
      Clicks(p) == p.breakdown.performance.clicks
      Conversions(p) == p.breakdown.performance.conversions
      Spend(p) == ShareOf(p.campaign.spend, p.campaign, p.breakdown)
      Revenue(p) == ShareOf(p.campaign.revenue, p.campaign, p.breakdown)
  IN  [impressions |-> ReduceSum(Filter(pairs, OfGroup), Impressions),
       clicks |-> ReduceSum(Filter(pairs, OfGroup), Clicks),
       conversions |-> ReduceSum(Filter(pairs, OfGroup), Conversions),
       spend |-> ReduceSum(Filter(pairs, Funded), Spend),
       revenue |-> ReduceSum(Filter(pairs, Funded), Revenue)]

GroupsAreExpected(pairs, map) ==
  \A i \in 1..Len(pairs) :
    LET b == pairs[i].breakdown
        k == KeyIndex(map, b.gender \o <<"-">> \o b.age_group)
    IN  /\ k > 0
        /\ map[k].val = ExpectedGroup(pairs, b.gender, b.age_group)

\* C3: on the demographic page a record of a campaign whose percentages add up
\* to 0 adds no spend and no revenue to its gender and age group, while its
\* impressions, clicks and conversions are added like those of any record: the
\* engagement of a group is the sum over all its records, whatever their
\* percentage_of_audience.
C3_ZeroPercentageKeepsEngagement ==
  page = "demographic" =>
    GroupsAreExpected(CampaignRecords(LoadedCampaigns, 1),
                      demographicMap(<<>>, LoadedCampaigns, 1))

\* one campaign with a spend, its records all with percentage 0 and one of them
\* with a click: the page shows the click and no spend
C3_Witness ==
  /\ page = "demographic" /\ ~loading
  /\ Len(LoadedCampaigns) = 1
  /\ LoadedCampaigns[1].spend = Num(1, 8)
  /\ Len(LoadedCampaigns[1].demographic_breakdown) = 2
  /\ \A i \in 1..2 :
       /\ LoadedCampaigns[1].demographic_breakdown[i].percentage_of_audience = Zero
       /\ LoadedCampaigns[1].demographic_breakdown[i].gender = Male
       /\ LoadedCampaigns[1].demographic_breakdown[i].performance.clicks = Whole(1)
  /\ aggregatedData.maleMetrics.totalClicks = Whole(2)
  /\ aggregatedData.maleMetrics.totalSpend = Zero
  /\ aggregatedData.maleMetrics.totalRevenue = Zero

\* the age_group strings of the loaded records of a gender
AgeGroupsOf(campaigns, gender) ==
  LET pairs == CampaignRecords(campaigns, 1)
  IN  {pairs[i].breakdown.age_group :
         i \in {j \in 1..Len(pairs) : pairs[j].breakdown.gender = gender}}

\* C4: every aggregated demographic group and every table row carries as its
\* ageGroup the full age_group string of the records accumulated into it, and
\* as its gender the gender of those records.
C4_AgeGroupIsTheRecordsAgeGroup ==
  page = "demographic" =>
    /\ \A i \in 1..Len(aggregatedList(LoadedCampaigns)) :
         LET group == aggregatedList(LoadedCampaigns)[i]
         IN  /\ group.gender \in {Male, Female}
             /\ group.ageGroup \in AgeGroupsOf(LoadedCampaigns, group.gender)
    /\ \A i \in 1..Len(aggregatedData.maleTableData) :
         aggregatedData.maleTableData[i].ageGroup \in AgeGroupsOf(LoadedCampaigns, Male)
    /\ \A i \in 1..Len(aggregatedData.femaleTableData) :
         aggregatedData.femaleTableData[i].ageGroup \in AgeGroupsOf(LoadedCampaigns, Female)

\* a Male record of age group "18-24" is loaded and the Male table has a row
C4_Witness ==
  /\ page = "demographic" /\ ~loading
  /\ AgeGroupsOf(LoadedCampaigns, Male) = {<<"1","8","-","2","4">>}
  /\ Len(aggregatedData.maleTableData) = 1

----------------------------------------------------------------------------
(* Properties of the derived rates *)

\* numerator / denominator, 0 when the denominator is 0
ZeroGuarded(num, den) == IF JsEq(den, Zero) THEN Zero ELSE JsDiv(num, den)

\* a finite number that is not negative
IsRate(x) == IsFinite(x) /\ JsGe(x, Zero)

\* x is p rounded to two decimals: a number of hundredths (in lowest terms its
\* denominator divides 100) at most half a hundredth away from p
IsRoundedToCents(x, p) ==
  /\ IsFinite(x)
  /\ 100 % x.d = 0
  /\ JsGe(Num(1, 200), JsAbs(JsSub(x, p)))

WeeklyRatesFromSums ==
  /\ \A i \in 1..Len(finalWeeklyList(LoadedCampaigns)) :
       LET g == finalWeeklyList(LoadedCampaigns)[i]
       IN  /\ g.ctr = ZeroGuarded(g.clicks, g.impressions)
           /\ g.conversionRate = ZeroGuarded(g.conversions, g.clicks)
           /\ IsRate(g.ctr) /\ IsRate(g.conversionRate)
  /\ IsRate(aggregatedData.avgConversionRate)

DemographicRatesFromSums ==
  /\ \A i \in 1..Len(aggregatedList(LoadedCampaigns)) :
       LET g == aggregatedList(LoadedCampaigns)[i]
       IN  /\ g.ctr = ZeroGuarded(g.clicks, g.impressions)
           /\ g.conversionRate = ZeroGuarded(g.conversions, g.clicks)
           /\ IsRate(g.ctr) /\ IsRate(g.conversionRate)
  /\ \A i \in 1..Len(aggregatedData.maleTableData) :
       LET row == aggregatedData.maleTableData[i]
       IN  /\ row._sort_ctr = ZeroGuarded(row._sort_clicks, row._sort_impressions)
           /\ row._sort_conversionRate
                = ZeroGuarded(row._sort_conversions, row._sort_clicks)

\* the groups of the regional aggregation before the ones without a place on
\* the map are filtered out
RegionalGroups(campaigns) ==
  LET values == ObjectValues(regionalMap(<<>>, campaigns, 1))
  IN  [i \in 1..Len(values) |-> regionalRates(values[i])]

RegionalRatesFromSums ==
  \A i \in 1..Len(RegionalGroups(LoadedCampaigns)) :
    LET g == RegionalGroups(LoadedCampaigns)[i]
    IN  /\ g.ctr = ZeroGuarded(g.clicks, g.impressions)
        /\ g.conversionRate = ZeroGuarded(g.conversions, g.clicks)
        /\ g.cpc = ZeroGuarded(g.spend, g.clicks)
        /\ g.cpa = ZeroGuarded(g.spend, g.conversions)
        /\ g.roas = ZeroGuarded(g.revenue, g.spend)
        /\ IsRate(g.ctr) /\ IsRate(g.conversionRate)
        /\ IsRate(g.cpc) /\ IsRate(g.cpa) /\ IsRate(g.roas)

\* every device record of the fetched campaigns, in one sequence
RECURSIVE AllDeviceRecords(_, _)
AllDeviceRecords(campaigns, c) ==
  IF c > Len(campaigns) THEN <<>>
  ELSE (IF campaigns[c].device_performance = NULL THEN <<>>
        ELSE campaigns[c].device_performance[1])
       \o AllDeviceRecords(campaigns, c + 1)

\* every numeric field of every fetched device record holds a number
DeviceRecordsAreComplete ==
  \A i \in 1..Len(AllDeviceRecords(rawData, 1)) :
    LET r == AllDeviceRecords(rawData, 1)[i]
    IN  {r.impressions, r.clicks, r.conversions, r.spend, r.revenue}
          \cap {JsNull, JsUndefined} = {}

\* the rates of the device groups are the plain quotients
DeviceRatesAreQuotients ==
  \A i \in 1..Len(deviceData) :
    LET d == deviceData[i]
    IN  /\ d.average_ctr = ZeroGuarded(d.total_clicks, d.total_impressions)
        /\ d.average_conversion_rate
             = ZeroGuarded(d.total_conversions, d.total_clicks)
        /\ IsRate(d.average_ctr) /\ IsRate(d.average_conversion_rate)

\* the rates of the device groups are the quotients as percentages, rounded to
\* two decimals
DeviceRatesAreRoundedPercentages ==
  DeviceRecordsAreComplete => \A i \in 1..Len(deviceData) :
    LET d == deviceData[i]
    IN  /\ IsRoundedToCents(d.average_ctr,
             JsMul(Whole(100), ZeroGuarded(d.total_clicks, d.total_impressions)))
        /\ IsRoundedToCents(d.average_conversion_rate,
             JsMul(Whole(100), ZeroGuarded(d.total_conversions, d.total_clicks)))
        /\ JsEq(d.total_impressions, Zero) => d.average_ctr = Zero
        /\ JsEq(d.total_clicks, Zero) => d.average_conversion_rate = Zero
        /\ IsRate(d.average_ctr) /\ IsRate(d.average_conversion_rate)

\* C5 as the specification states it: in each of the four aggregations every
\* rate of a group is the quotient of the group's summed numerator by its summed
\* denominator, 0 when the denominator is 0, and never negative.
C5_RatesAreQuotients ==
  /\ page = "weekly" => WeeklyRatesFromSums
  /\ page = "demographic" => DemographicRatesFromSums
  /\ page = "region" => RegionalRatesFromSums
  /\ page = "device" => DeviceRatesAreQuotients

\* C5, amended: in the weekly, demographic and regional aggregations every rate
\* of a group is the quotient of the group's summed numerator by its summed
\* denominator; in the device aggregation it is that quotient times 100,
\* rounded to two decimals; in all four a rate is 0 when its denominator is 0,
\* is never negative, and is always a finite number.
C5_RatesAreQuotientsOrPercentages ==
  /\ page = "weekly" => WeeklyRatesFromSums
  /\ page = "demographic" => DemographicRatesFromSums
  /\ page = "region" => RegionalRatesFromSums
  /\ page = "device" => DeviceRatesAreRoundedPercentages

\* a device group with one click for three impressions and no conversion: its
\* rates are 33.33 and 0
C5_Witness ==
  /\ page = "device" /\ view.screen = "page"
  /\ \E i \in 1..Len(deviceData) :
       /\ deviceData[i].total_impressions = Whole(3)
       /\ deviceData[i].total_clicks = Whole(1)
       /\ deviceData[i].average_ctr = Num(3333, 100)
       /\ deviceData[i].total_conversions = Zero
       /\ deviceData[i].average_conversion_rate = Zero

----------------------------------------------------------------------------
(* Properties of the device aggregation *)

\* the record's device string is the given name once trimmed
IsOfDevice(stat, device) ==
  stat.device # NULL /\ Trim(stat.device[1]) = device

\* the totals of the records of one device
DeviceSumsOf(records, device) ==
  LET OfDevice(r) == IsOfDevice(r, device)
      Impressions(r) == r.impressions
      Clicks(r) == r.clicks
      Conversions(r) == r.conversions
      Spend(r) == r.spend
      Revenue(r) == r.revenue
  IN  [impressions |-> ReduceSum(Filter(records, OfDevice), Impressions),
       clicks |-> ReduceSum(Filter(records, OfDevice), Clicks),
       conversions |-> ReduceSum(Filter(records, OfDevice), Conversions),
       spend |-> ReduceSum(Filter(records, OfDevice), Spend),
       revenue |-> ReduceSum(Filter(records, OfDevice), Revenue)]

\* the campaigns without the records of any device other than the two
WithoutOtherDevices(campaigns) ==
  LET Tracked(r) == IsOfDevice(r, Mobile) \/ IsOfDevice(r, Desktop)
  IN  [c \in 1..Len(campaigns) |->
         IF campaigns[c].device_performance = NULL THEN campaigns[c]
         ELSE [campaigns[c] EXCEPT
                 !.device_performance = Some(Filter(campaigns[c].device_performance[1], Tracked))]]

\* C6: the device aggregation emits groups of "Mobile" and "Desktop" only; the
\* totals of a group are the sums over the records whose device string, once
\* trimmed, is exactly the group's device, and the records of any other device
\* value change nothing that is emitted.
C6_OnlyMobileAndDesktop ==
  page = "device" =>
    /\ \A i \in 1..Len(deviceData) : deviceData[i].device \in {Mobile, Desktop}
    /\ DeviceRecordsAreComplete => \A i \in 1..Len(deviceData) :
         LET d == deviceData[i]
             sums == DeviceSumsOf(AllDeviceRecords(rawData, 1), d.device)
         IN  /\ d.total_impressions = sums.impressions
             /\ d.total_clicks = sums.clicks
             /\ d.total_conversions = sums.conversions
             /\ IsRoundedToCents(d.total_spend, sums.spend)
             /\ IsRoundedToCents(d.total_revenue, sums.revenue)
    /\ deviceData = restructureDevicePerformance(WithoutOtherDevices(rawData))

\* a "Tablet" record fetched next to a "Mobile" record: the Mobile group alone
\* is emitted, with the Mobile record's impressions
C6_Witness ==
  /\ page = "device" /\ view.screen = "page"
  /\ Len(deviceData) = 1
  /\ deviceData[1].device = Mobile
  /\ \E i \in 1..Len(AllDeviceRecords(rawData, 1)) :
       AllDeviceRecords(rawData, 1)[i].device = Some(<<"T","a","b","l","e","t">>)
  /\ \E i \in 1..Len(AllDeviceRecords(rawData, 1)) :
       /\ AllDeviceRecords(rawData, 1)[i].device = Some(Mobile)
       /\ AllDeviceRecords(rawData, 1)[i].impressions = Whole(3)
  /\ deviceData[1].total_impressions = Whole(3)

----------------------------------------------------------------------------
(* Properties of the regional aggregation and of the geo lookup *)

\* every regional record of the loaded campaigns, in one sequence
RECURSIVE AllRegionalRecords(_, _)
AllRegionalRecords(campaigns, c) ==
  IF c > Len(campaigns) THEN <<>>
  ELSE campaigns[c].regional_performance \o AllRegionalRecords(campaigns, c + 1)

\* the names that are keys of the static geo table
TableRegions == {REGION_COORDINATES[i].key : i \in 1..Len(REGION_COORDINATES)}

\* the entry of the static geo table for one of its keys
TableEntry(region) ==
  (CHOOSE e \in {REGION_COORDINATES[i] : i \in 1..Len(REGION_COORDINATES)} :
     e.key = region).val

IsAtOrigin(point) ==
  /\ point.latitude # NULL /\ point.longitude # NULL
  /\ JsEq(point.latitude[1], Zero) /\ JsEq(point.longitude[1], Zero)

\* C7: the regional aggregation emits no group at the coordinates (0,0), and a
\* region whose name is not in the static geo table is absent from
\* revenueMapData and from spendMapData.
C7_UnknownRegionsAreOffTheMap ==
  page = "region" =>
    /\ \A i \in 1..Len(aggregatedData.revenueMapData) :
         /\ ~IsAtOrigin(aggregatedData.revenueMapData[i])
         /\ aggregatedData.revenueMapData[i].region \in TableRegions
    /\ \A i \in 1..Len(aggregatedData.spendMapData) :
         /\ ~IsAtOrigin(aggregatedData.spendMapData[i])
         /\ aggregatedData.spendMapData[i].region \in TableRegions

\* what the maps do keep to: no emitted group is at (0,0), and a region that
\* getCoordinates sends to the fallback position is on neither map
NoGroupAtTheOrigin ==
  page = "region" =>
    /\ \A i \in 1..Len(aggregatedData.revenueMapData) :
         /\ ~IsAtOrigin(aggregatedData.revenueMapData[i])
         /\ aggregatedData.revenueMapData[i].region # Atlantis
    /\ \A i \in 1..Len(aggregatedData.spendMapData) :
         /\ ~IsAtOrigin(aggregatedData.spendMapData[i])
         /\ aggregatedData.spendMapData[i].region # Atlantis

\* records of "Atlantis" and of "Dubai" are loaded: Dubai alone is on the maps
AtlantisIsOffTheMap ==
  /\ page = "region" /\ ~loading
  /\ {AllRegionalRecords(LoadedCampaigns, 1)[i].region :
        i \in 1..Len(AllRegionalRecords(LoadedCampaigns, 1))} = {Atlantis, Dubai}
  /\ Len(aggregatedData.revenueMapData) = 1
  /\ aggregatedData.revenueMapData[1].region = Dubai
  /\ Len(aggregatedData.spendMapData) = 1

\* the only record loaded is of the region "constructor", which is no key of
\* the geo table: it is on both maps, without coordinates
C7_Witness ==
  /\ page = "region" /\ ~loading
  /\ Len(AllRegionalRecords(LoadedCampaigns, 1)) = 1
  /\ AllRegionalRecords(LoadedCampaigns, 1)[1].region \notin TableRegions
  /\ Len(aggregatedData.revenueMapData) = 1
  /\ Len(aggregatedData.spendMapData) = 1
  /\ aggregatedData.revenueMapData[1].region
       = <<"c","o","n","s","t","r","u","c","t","o","r">>
  /\ aggregatedData.revenueMapData[1].latitude = NULL
  /\ aggregatedData.revenueMapData[1].longitude = NULL

\* the position getCoordinates is stated to return for a region name
StatedCoordinates(region) ==
  IF region \in TableRegions THEN TableEntry(region)
  ELSE [lat |-> Some(Zero), lon |-> Some(Zero), color |-> Some("#94a3b8")]

\* C8: getCoordinates returns, for every region name of the loaded records,
\* the table entry when the name is a key of the static table and the fallback
\* {lat: 0, lon: 0, color: "#94a3b8"} for every other name.
C8_TableEntryOrFallback ==
  page = "region" =>
    \A i \in 1..Len(AllRegionalRecords(LoadedCampaigns, 1)) :
      getCoordinates(AllRegionalRecords(LoadedCampaigns, 1)[i].region)
        = StatedCoordinates(AllRegionalRecords(LoadedCampaigns, 1)[i].region)

\* what the lookup does keep to: the table entry or the fallback for every
\* name that is not a member of Object.prototype
TableEntryOrFallbackForOwnNames ==
  page = "region" =>
    \A i \in 1..Len(AllRegionalRecords(LoadedCampaigns, 1)) :
      LET region == AllRegionalRecords(LoadedCampaigns, 1)[i].region
      IN  region \notin ObjectPrototypeProperties =>
            getCoordinates(region) = StatedCoordinates(region)

\* a record of the region "constructor" is loaded: the lookup answers with a
\* value that has no lat, no lon and no color
C8_Witness ==
  /\ page = "region" /\ ~loading
  /\ \E i \in 1..Len(AllRegionalRecords(LoadedCampaigns, 1)) :
       LET region == AllRegionalRecords(LoadedCampaigns, 1)[i].region
       IN  /\ region = <<"c","o","n","s","t","r","u","c","t","o","r">>
           /\ region \notin TableRegions
           /\ getCoordinates(region) = [lat |-> NULL, lon |-> NULL, color |-> NULL]

----------------------------------------------------------------------------
(* Properties of the pages on an empty campaign list and on a failed fetch *)

\* C9: with an empty campaign list, whether the fetch answered with no campaign
\* or failed, the weekly totals are 0 and the chart series empty, the
\* demographic gender metrics are 0 and the charts and tables empty, the
\* device list is empty, and the regional totals are 0, the top region 'N/A'
\* and the map data empty.
C9_EmptyListGivesEmptyResults ==
  /\ (page = "weekly" /\ Len(LoadedCampaigns) = 0) =>
       aggregatedData = [totalRevenue |-> Zero, totalSpend |-> Zero,
                         avgConversionRate |-> Zero,
                         revenueChartData |-> <<>>, spendChartData |-> <<>>]
  /\ (page = "demographic" /\ Len(LoadedCampaigns) = 0) =>
       aggregatedData =
         [maleMetrics |-> [totalClicks |-> Zero, totalSpend |-> Zero, totalRevenue |-> Zero],
          femaleMetrics |-> [totalClicks |-> Zero, totalSpend |-> Zero, totalRevenue |-> Zero],
          spendChart |-> <<>>, revenueChart |-> <<>>,
          maleTableData |-> <<>>, femaleTableData |-> <<>>]
  /\ (page = "region" /\ Len(LoadedCampaigns) = 0) =>
       aggregatedData = [totalRevenue |-> Zero, totalSpend |-> Zero, averageRoas |-> Zero,
                         topRegion |-> <<"N","/","A">>,
                         revenueMapData |-> <<>>, spendMapData |-> <<>>]
  /\ (page = "device" /\ Len(rawData) = 0) => deviceData = <<>>
  /\ (page = "device" /\ error # NULL) => (rawData = <<>> /\ deviceData = <<>>)

\* the region page once its fetch has answered with no campaign at all
C9_Witness ==
  /\ page = "region" /\ ~loading
  /\ marketingData # NULL
  /\ Len(LoadedCampaigns) = 0
  /\ aggregatedData.topRegion = <<"N","/","A">>

\* the fetch of a page that loads its data in the browser has failed
FetchFailed ==
  /\ page \in {"weekly", "demographic", "region"}
  /\ ~loading
  /\ marketingData = NULL

\* C10: in every view, once the fetch of the data has failed, the message of
\* the failure is held in the view's state and is shown as an error message.
C10_FailureIsCapturedAndShown ==
  /\ FetchFailed => (error # NULL /\ view.errorMessage = error)
  /\ (page = "device" /\ view.screen = "page" /\ error # NULL) =>
       view.errorMessage = error

\* what the two views that keep an error state do: the demographic and the
\* device page hold the message of a failed fetch and show it
DemographicAndDeviceShowTheFailure ==
  /\ (FetchFailed /\ page = "demographic") =>
       (error # NULL /\ view.errorMessage = error)
  /\ (page = "device" /\ view.screen = "page" /\ error # NULL) =>
       view.errorMessage = error

\* the weekly page after a failed fetch: no message held, none shown
C10_Witness ==
  /\ page = "weekly" /\ FetchFailed
  /\ error = NULL
  /\ view.screen = "page" /\ view.errorMessage = NULL

----------------------------------------------------------------------------
(* Properties of the device page *)

\* the device page has been rendered
DeviceRendered == page = "device" /\ view.screen = "page"

\* the aggregation's output holds a group of the device
HasDevice(device) == \E i \in 1..Len(deviceData) : deviceData[i].device = device

\* C11 as the specification states it: whenever Mobile or Desktop is absent
\* from the output of the device aggregation, the page shows the "missing key
\* device" warning and computes no comparison metrics.
C11_MissingDeviceShowsTheWarning ==
  (DeviceRendered /\ (~HasDevice(Mobile) \/ ~HasDevice(Desktop))) =>
    /\ view.content[1].message = "Data Warning: Missing Key Device"
    /\ view.content[1].comparison = NULL

\* C11, amended: whenever Mobile or Desktop is absent from the output of the
\* device aggregation, the page computes no comparison metrics; it shows the
\* "missing key device" warning, naming the devices that were processed, when
\* the fetch succeeded, and the fetch error box when the fetch failed.  The
\* comparison is computed exactly when both devices are present.
C11_MissingDeviceShowsWarningOrFetchError ==
  DeviceRendered =>
    IF ~HasDevice(Mobile) \/ ~HasDevice(Desktop)
    THEN /\ view.content[1].comparison = NULL
         /\ view.content[1].message
              = IF error = NULL THEN "Data Warning: Missing Key Device"
                ELSE "Data Fetch Error"
         /\ error = NULL =>
              view.content[1].availableDevices
                = [i \in 1..Len(deviceData) |-> deviceData[i].device]
    ELSE /\ error = NULL
         /\ view.content[1].message = "none"
         /\ view.content[1].comparison # NULL

\* the fetch succeeded and the output holds the Mobile group only: the
\* warning is shown and nothing is compared
C11_Witness ==
  /\ DeviceRendered /\ error = NULL
  /\ HasDevice(Mobile) /\ ~HasDevice(Desktop)
  /\ view.content[1].message = "Data Warning: Missing Key Device"
  /\ view.content[1].availableDevices = <<Mobile>>
  /\ view.content[1].comparison = NULL

\* the response body was parsed as JSON
BodyParsed == DeviceRendered /\ response # NULL /\ response[1].kind = "json"

\* the parsed body is neither an array nor an object holding an array under
\* data or campaigns
MalformedBody ==
  /\ BodyParsed
  /\ response[1].body.type # "array"
  /\ response[1].body.data = NULL
  /\ response[1].body.campaigns = NULL

\* C12: a fetched response body that is neither an array nor an object
\* holding an array under data or campaigns results in an error outcome: the
\* page captures an error and shows the fetch error box.
C12_MalformedBodyIsAnError ==
  MalformedBody =>
    /\ error # NULL
    /\ view.content[1].message = "Data Fetch Error"

\* what the program does with such a body: no error, the aggregation of the
\* empty list, and the missing-device warning
C12_Witness ==
  /\ MalformedBody
  /\ error = NULL /\ rawData = <<>> /\ deviceData = <<>>
  /\ view.content[1].message = "Data Warning: Missing Key Device"

\* C14: the device ingestion unwraps three response shapes to the campaign
\* array: a JSON array is returned as is, an object with an array under data
\* yields that array, and an object with an array under campaigns (and none
\* under data) yields that array; no error is captured for any of them.
C14_ThreeShapesAreUnwrapped ==
  BodyParsed =>
    LET body == response[1].body
    IN  /\ body.type = "array" => (rawData = body.items /\ error = NULL)
        /\ (body.type = "object" /\ body.data # NULL) =>
             (rawData = body.data[1] /\ error = NULL)
        /\ (body.type = "object" /\ body.data = NULL /\ body.campaigns # NULL) =>
             (rawData = body.campaigns[1] /\ error = NULL)

\* an object with a campaign under the campaigns key has been unwrapped and
\* its device record aggregated
C14_Witness ==
  /\ BodyParsed
  /\ response[1].body.type = "object"
  /\ response[1].body.data = NULL
  /\ response[1].body.campaigns # NULL
  /\ rawData = response[1].body.campaigns[1]
  /\ Len(rawData) = 1
  /\ deviceData # <<>>

\* the value a numeric field counts for when null and undefined count as 0
ZeroIfMissing(v) == IF v \in {JsNull, JsUndefined} THEN Zero ELSE v

\* the totals of the records of one device, a missing field counting as 0
DeviceSumsWithMissingAsZero(records, device) ==
  LET OfDevice(r) == IsOfDevice(r, device)
      Impressions(r) == ZeroIfMissing(r.impressions)
      Clicks(r) == ZeroIfMissing(r.clicks)
      Conversions(r) == ZeroIfMissing(r.conversions)
      Spend(r) == ZeroIfMissing(r.spend)
      Revenue(r) == ZeroIfMissing(r.revenue)
  IN  [impressions |-> ReduceSum(Filter(records, OfDevice), Impressions),
       clicks |-> ReduceSum(Filter(records, OfDevice), Clicks),
       conversions |-> ReduceSum(Filter(records, OfDevice), Conversions),
       spend |-> ReduceSum(Filter(records, OfDevice), Spend),
       revenue |-> ReduceSum(Filter(records, OfDevice), Revenue)]

\* C13: a record whose impressions, clicks, conversions, spend or revenue is
\* null or undefined contributes 0 for that field: every total of an emitted
\* device group is a finite number, the sum of the values the records of the
\* device hold (spend and revenue rounded to two decimals).
C13_MissingFieldCountsAsZero ==
  DeviceRendered =>
    \A i \in 1..Len(deviceData) :
      LET d == deviceData[i]
          sums == DeviceSumsWithMissingAsZero(AllDeviceRecords(rawData, 1), d.device)
      IN  /\ d.total_impressions = sums.impressions
          /\ d.total_clicks = sums.clicks
          /\ d.total_conversions = sums.conversions
          /\ IsRoundedToCents(d.total_spend, sums.spend)
          /\ IsRoundedToCents(d.total_revenue, sums.revenue)

\* a complete Mobile record next to one whose spend is undefined: the Mobile
\* group's spend is NaN, not the spend of the complete record
C13_Witness ==
  /\ DeviceRendered /\ error = NULL
  /\ Len(AllDeviceRecords(rawData, 1)) = 2
  /\ AllDeviceRecords(rawData, 1)[1] = CompleteMobileRecord
  /\ AllDeviceRecords(rawData, 1)[2].spend = JsUndefined
  /\ Len(deviceData) = 1
  /\ IsNaN(deviceData[1].total_spend)
  /\ deviceData[1].total_revenue = Num(MaxMoney, 2)

\* a null field does count as 0: with a complete Mobile record next to one
\* whose spend is null, the group's spend is the complete record's spend
NullFieldCountsAsZero ==
  (/\ DeviceRendered
   /\ \A i \in 1..Len(AllDeviceRecords(rawData, 1)) :
        LET r == AllDeviceRecords(rawData, 1)[i]
        IN  JsUndefined \notin {r.impressions, r.clicks, r.conversions, r.spend, r.revenue})
  => C13_MissingFieldCountsAsZero

----------------------------------------------------------------------------
(* Properties of repeated invocation *)

\* what one invocation of an aggregation on a campaign list returns when nothing
\* was invoked before it
ResultOfOneCall(aggregation, campaigns) ==
  CASE aggregation = "weekly" -> WeeklyAggregate(Some([campaigns |-> campaigns]))
    [] aggregation = "demographic" ->
         DemographicAggregate(Some([campaigns |-> campaigns]))
    [] aggregation = "device" -> restructureDevicePerformance(campaigns)
    [] aggregation = "region" -> RegionAggregate(Some([campaigns |-> campaigns]))

\* C15: aggregation carries no state over: two invocations of the same
\* aggregation on the same campaign list return equal results, whatever was
\* invoked before and between them; each result is the one a first invocation
\* on that list returns.
C15_EqualInputsGiveEqualResults ==
  /\ \A i \in 1..Len(calls) : \A j \in 1..Len(calls) :
       (/\ calls[i].aggregation = calls[j].aggregation
        /\ calls[i].campaigns = calls[j].campaigns)
       => calls[i].result = calls[j].result
  /\ \A i \in 1..Len(calls) :
       calls[i].result = ResultOfOneCall(calls[i].aggregation, calls[i].campaigns)

\* the device aggregation invoked on a Mobile record, then on a Desktop record,
\* then on the Mobile record again: the first and the third results are the
\* same Mobile group
C15_Witness ==
  /\ Len(calls) = 3
  /\ \A i \in 1..3 : calls[i].aggregation = "device"
  /\ calls[1].campaigns = calls[3].campaigns
  /\ calls[2].campaigns # calls[1].campaigns
  /\ Len(calls[2].campaigns) = 1
  /\ Len(calls[1].result) = 1
  /\ calls[1].result[1].device = Mobile
  /\ calls[3].result = calls[1].result

----------------------------------------------------------------------------
(* Properties of the weekly order and of the weekly average *)

\* the week start a chart point was made from, read from its tooltip
\* "<what>(<weekStart> to <weekEnd>)"
WeekStartOfPoint(point) == SubSeq(point.tooltipLabel, 2, 11)

\* the dates are valid and none is later than the one that follows it
InDateOrder(weekStarts) ==
  /\ \A i \in 1..Len(weekStarts) : IsFinite(DateGetTime(weekStarts[i]))
  /\ \A i \in 1..(Len(weekStarts) - 1) :
       ~JsGt(DateGetTime(weekStarts[i]), DateGetTime(weekStarts[i + 1]))

\* C16: the weekly groups and both chart series are in ascending order of the
\* week_start date, whatever order the weekly records arrive in: no point's week
\* starts later than the next one's, and the two series follow the groups.
C16_WeeksInDateOrder ==
  page = "weekly" =>
    LET list == finalWeeklyList(LoadedCampaigns)
        starts == [i \in 1..Len(list) |-> list[i].weekStart]
    IN  /\ InDateOrder(starts)
        /\ starts = [i \in 1..Len(aggregatedData.revenueChartData) |->
                       WeekStartOfPoint(aggregatedData.revenueChartData[i])]
        /\ starts = [i \in 1..Len(aggregatedData.spendChartData) |->
                       WeekStartOfPoint(aggregatedData.spendChartData[i])]
        /\ \A i \in 1..Len(starts) :
             aggregatedData.revenueChartData[i].label = Slice(starts[i], 5)

\* the record of the later week arrives first: the charts start with the
\* earlier week
C16_Witness ==
  /\ page = "weekly" /\ ~loading
  /\ Len(AllWeeklyRecords(LoadedCampaigns, 1)) = 2
  /\ AllWeeklyRecords(LoadedCampaigns, 1)[1].week_start
       = <<"2","0","2","4","-","0","1","-","0","8">>
  /\ AllWeeklyRecords(LoadedCampaigns, 1)[2].week_start
       = <<"2","0","2","4","-","0","1","-","0","1">>
  /\ Len(aggregatedData.revenueChartData) = 2
  /\ aggregatedData.revenueChartData[1].label = <<"0","1","-","0","1">>
  /\ aggregatedData.spendChartData[2].label = <<"0","1","-","0","8">>

\* C17: the weekly avgConversionRate is the sum of the conversions of all weekly
\* records divided by the sum of their clicks, and 0 when that sum of clicks
\* is 0.
C17_AverageIsRatioOfSums ==
  page = "weekly" =>
    LET Conversions(r) == r.conversions
        Clicks(r) == r.clicks
        records == AllWeeklyRecords(LoadedCampaigns, 1)
    IN  aggregatedData.avgConversionRate
          = ZeroGuarded(ReduceSum(records, Conversions), ReduceSum(records, Clicks))

\* a week with a click that converts and a week with no click: the average is
\* 1, the ratio of the sums, while the mean of the two weeks' rates is 1/2
C17_Witness ==
  /\ page = "weekly" /\ ~loading
  /\ Len(finalWeeklyList(LoadedCampaigns)) = 2
  /\ finalWeeklyList(LoadedCampaigns)[1].conversionRate = Whole(1)
  /\ finalWeeklyList(LoadedCampaigns)[2].clicks = Zero
  /\ finalWeeklyList(LoadedCampaigns)[2].conversionRate = Zero
  /\ aggregatedData.avgConversionRate = Whole(1)

----------------------------------------------------------------------------
(* Properties of the demographic charts and gender lists *)

\* the funded shares of spend and revenue of the records the test selects
AgeSharesOf(pairs, Selected(_)) ==
  LET Funded(p) == Selected(p) /\ JsGt(PercentageSum(p.campaign), Zero)
      Spend(p) == ShareOf(p.campaign.spend, p.campaign, p.breakdown)
      Revenue(p) == ShareOf(p.campaign.revenue, p.campaign, p.breakdown)
  IN  [spend |-> ReduceSum(Filter(pairs, Funded), Spend),
       revenue |-> ReduceSum(Filter(pairs, Funded), Revenue)]

\* the shares of the records whose age_group is the label
AgeSumsOf(pairs, label) ==
  LET OfAge(p) == p.breakdown.age_group = label
  IN  AgeSharesOf(pairs, OfAge)

\* the shares of the records whose age_group starts, up to its first "-", with
\* the label
AgeSumsOfLeadingSegment(pairs, label) ==
  LET OfAge(p) == Split(p.breakdown.age_group)[1] = label
  IN  AgeSharesOf(pairs, OfAge)

\* the points are in ascending order of the leading integer of their labels
AscendingByLeadingInteger(chart) ==
  \A i \in 1..(Len(chart) - 1) :
    /\ IsFinite(ParseInt(Split(chart[i].label)[1]))
    /\ IsFinite(ParseInt(Split(chart[i + 1].label)[1]))
    /\ ~JsGt(ParseInt(Split(chart[i].label)[1]), ParseInt(Split(chart[i + 1].label)[1]))

\* C18: the spend and revenue charts hold exactly one point per distinct
\* age_group label of the loaded records, labelled with it; a point's value is
\* the sum of the distributed spend (revenue) of the records of that age group,
\* both genders together; the points are in ascending order of the leading
\* integer of the label, and both charts list the same labels in the same order.
C18_OnePointPerAgeGroup ==
  page = "demographic" =>
    LET pairs == CampaignRecords(LoadedCampaigns, 1)
        labels == {pairs[i].breakdown.age_group : i \in 1..Len(pairs)}
        spendChart == aggregatedData.spendChart
        revenueChart == aggregatedData.revenueChart
    IN  /\ Len(spendChart) = Cardinality(labels)
        /\ {spendChart[i].label : i \in 1..Len(spendChart)} = labels
        /\ \A i \in 1..Len(spendChart) :
             spendChart[i].value = AgeSumsOf(pairs, spendChart[i].label).spend
        /\ Len(revenueChart) = Len(spendChart)
        /\ \A i \in 1..Len(revenueChart) :
             /\ revenueChart[i].label = spendChart[i].label
             /\ revenueChart[i].value = AgeSumsOf(pairs, revenueChart[i].label).revenue
        /\ AscendingByLeadingInteger(spendChart)

\* records of "18-24" and of "25-34" are charted as "18" and "25"
C18_Witness ==
  /\ page = "demographic" /\ ~loading
  /\ {CampaignRecords(LoadedCampaigns, 1)[i].breakdown.age_group :
        i \in 1..Len(CampaignRecords(LoadedCampaigns, 1))}
       = {<<"1","8","-","2","4">>, <<"2","5","-","3","4">>}
  /\ Len(aggregatedData.spendChart) = 2
  /\ aggregatedData.spendChart[1].label = <<"1","8">>
  /\ aggregatedData.spendChart[2].label = <<"2","5">>
  /\ aggregatedData.revenueChart[1].label = <<"1","8">>

\* what the charts do hold: one point per distinct leading segment of the
\* age_group labels, labelled with that segment alone and valued with the
\* shares of the records whose label starts with it, in ascending order, the
\* same labels in both charts
AgeChartsOverLeadingSegments ==
  page = "demographic" =>
    LET pairs == CampaignRecords(LoadedCampaigns, 1)
        labels == {Split(pairs[i].breakdown.age_group)[1] : i \in 1..Len(pairs)}
        spendChart == aggregatedData.spendChart
        revenueChart == aggregatedData.revenueChart
    IN  /\ Len(spendChart) = Cardinality(labels)
        /\ {spendChart[i].label : i \in 1..Len(spendChart)} = labels
        /\ \A i \in 1..Len(spendChart) :
             spendChart[i].value
               = AgeSumsOfLeadingSegment(pairs, spendChart[i].label).spend
        /\ Len(revenueChart) = Len(spendChart)
        /\ \A i \in 1..Len(revenueChart) :
             /\ revenueChart[i].label = spendChart[i].label
             /\ revenueChart[i].value
                  = AgeSumsOfLeadingSegment(pairs, revenueChart[i].label).revenue
        /\ AscendingByLeadingInteger(spendChart)

\* the clicks and the funded shares of the records of one gender
GenderSumsOf(pairs, gender) ==
  LET OfGender(p) == p.breakdown.gender = gender
      Funded(p) == OfGender(p) /\ JsGt(PercentageSum(p.campaign), Zero)
      Clicks(p) == p.breakdown.performance.clicks
      Spend(p) == ShareOf(p.campaign.spend, p.campaign, p.breakdown)
      Revenue(p) == ShareOf(p.campaign.revenue, p.campaign, p.breakdown)
  IN  [totalClicks |-> ReduceSum(Filter(pairs, OfGender), Clicks),
       totalSpend |-> ReduceSum(Filter(pairs, Funded), Spend),
       totalRevenue |-> ReduceSum(Filter(pairs, Funded), Revenue)]

\* the rows of a gender's table are the aggregated groups of that gender, in
\* their order
RowsAreTheGroupsOf(rows, gender) ==
  LET groups == aggregatedList(LoadedCampaigns)
      idx == {i \in 1..Len(groups) : groups[i].gender = gender}
  IN  /\ Len(rows) = Cardinality(idx)
      /\ Len(rows) = Cardinality(AgeGroupsOf(LoadedCampaigns, gender))
      /\ \A k \in 1..Len(rows) :
           \E i \in idx :
             /\ Cardinality({j \in idx : j < i}) = k - 1
             /\ rows[k].ageGroup = groups[i].ageGroup
             /\ rows[k]._sort_clicks = groups[i].clicks
             /\ rows[k]._sort_impressions = groups[i].impressions

\* C19: the male list holds exactly the aggregated groups of gender Male and the
\* female list exactly those of gender Female; maleMetrics are the sums of the
\* clicks, the distributed spend and the distributed revenue of the Male
\* records, and femaleMetrics those of the Female records.
C19_GenderListsAndMetrics ==
  page = "demographic" =>
    LET pairs == CampaignRecords(LoadedCampaigns, 1)
    IN  /\ RowsAreTheGroupsOf(aggregatedData.maleTableData, Male)
        /\ RowsAreTheGroupsOf(aggregatedData.femaleTableData, Female)
        /\ Len(aggregatedData.maleTableData) + Len(aggregatedData.femaleTableData)
             = Len(aggregatedList(LoadedCampaigns))
        /\ aggregatedData.maleMetrics = GenderSumsOf(pairs, Male)
        /\ aggregatedData.femaleMetrics = GenderSumsOf(pairs, Female)

\* a campaign with a spend, a Male record with a click and a Female record
\* without one, each with half of the audience: one row per gender, the click
\* counted for the men only, the spend halved
C19_Witness ==
  /\ page = "demographic" /\ ~loading
  /\ Len(LoadedCampaigns) = 1
  /\ LoadedCampaigns[1].spend = Num(1, 8)
  /\ Len(LoadedCampaigns[1].demographic_breakdown) = 2
  /\ LoadedCampaigns[1].demographic_breakdown[1].gender = Male
  /\ LoadedCampaigns[1].demographic_breakdown[2].gender = Female
  /\ Len(aggregatedData.maleTableData) = 1
  /\ Len(aggregatedData.femaleTableData) = 1
  /\ aggregatedData.maleMetrics.totalClicks = Whole(1)
  /\ aggregatedData.femaleMetrics.totalClicks = Zero
  /\ aggregatedData.maleMetrics.totalSpend = Num(1, 16)
  /\ aggregatedData.femaleMetrics.totalSpend = Num(1, 16)

----------------------------------------------------------------------------
(* Properties of the emission of the device groups *)

\* C20: a group of Mobile or of Desktop is in the output of the device
\* aggregation exactly when the impressions, the clicks or the conversions of
\* the device's records add up to more than 0; there is at most one group per
\* device, and a device with records of spend and revenue only, or with no
\* record, has none.
C20_EmittedIffEngaged ==
  (DeviceRendered /\ DeviceRecordsAreComplete) =>
    /\ \A device \in {Mobile, Desktop} :
         LET sums == DeviceSumsOf(AllDeviceRecords(rawData, 1), device)
         IN  HasDevice(device) <=>
               \/ JsGt(sums.impressions, Zero)
               \/ JsGt(sums.clicks, Zero)
               \/ JsGt(sums.conversions, Zero)
    /\ \A i \in 1..Len(deviceData) : \A j \in 1..Len(deviceData) :
         deviceData[i].device = deviceData[j].device => i = j

\* a single Mobile record with a spend and a revenue but no impression, click
\* or conversion: nothing is emitted
C20_Witness ==
  /\ DeviceRendered /\ error = NULL
  /\ Len(AllDeviceRecords(rawData, 1)) = 1
  /\ AllDeviceRecords(rawData, 1)[1].device = Some(Mobile)
  /\ AllDeviceRecords(rawData, 1)[1].impressions = Zero
  /\ AllDeviceRecords(rawData, 1)[1].clicks = Zero
  /\ AllDeviceRecords(rawData, 1)[1].conversions = Zero
  /\ AllDeviceRecords(rawData, 1)[1].spend = Num(1, 8)
  /\ deviceData = <<>>

----------------------------------------------------------------------------
(* Properties of the device comparison *)

\* both devices have a group and the comparison has been computed
Compared ==
  /\ DeviceRendered
  /\ HasDevice(Mobile) /\ HasDevice(Desktop)
  /\ view.content[1].comparison # NULL

\* the revenue of the group of a device
RevenueOf(device) ==
  deviceData[CHOOSE i \in 1..Len(deviceData) : deviceData[i].device = device].total_revenue

\* C21: when both groups are present, the delta percentage of the comparison is
\* |mobileRevenue - desktopRevenue| / desktopRevenue * 100 when the Desktop
\* revenue is not 0 and |mobileRevenue - desktopRevenue| * 100 when it is 0; it
\* is a finite number, nothing is divided by zero.
C21_DeltaPercent ==
  (DeviceRendered /\ HasDevice(Mobile) /\ HasDevice(Desktop)) =>
    /\ view.content[1].comparison # NULL
    /\ LET difference == JsAbs(JsSub(RevenueOf(Mobile), RevenueOf(Desktop)))
           deltaPercent == view.content[1].comparison[1].deltaPercent
       IN  /\ IsFinite(deltaPercent)
           /\ deltaPercent
                = IF RevenueOf(Desktop) = Zero
                  THEN JsMul(difference, Whole(100))
                  ELSE JsMul(JsDiv(difference, RevenueOf(Desktop)), Whole(100))

\* Mobile with a revenue and Desktop with none: the delta is the difference
\* times 100
C21_Witness ==
  /\ Compared
  /\ RevenueOf(Desktop) = Zero
  /\ RevenueOf(Mobile) = Num(1, 4)
  /\ view.content[1].comparison[1].deltaPercent = Whole(25)

\* C27: the lead card names Mobile as the leader exactly when its indicator is
\* the upward, green one, and Desktop exactly when it is the downward, red one,
\* for every pair of revenues, equal ones included.
C27_LeadCardIsConsistent ==
  Compared =>
    LET card == view.content[1].comparison[1].leadCard
    IN  /\ card.title = "Mobile Revenue Lead"
             <=> (card.icon = "ArrowUp" /\ card.color = "text-green-500")
        /\ card.title = "Desktop Revenue Lead"
             <=> (card.icon = "ArrowDown" /\ card.color = "text-red-500")

\* equal revenues: the card names Desktop as the leader under the upward,
\* green indicator
C27_Witness ==
  /\ Compared
  /\ RevenueOf(Mobile) = RevenueOf(Desktop)
  /\ view.content[1].comparison[1].leadCard.title = "Desktop Revenue Lead"
  /\ view.content[1].comparison[1].leadCard.icon = "ArrowUp"
  /\ view.content[1].comparison[1].leadCard.color = "text-green-500"

\* with revenues that differ the lead card is consistent
LeadCardIsConsistentUnlessEqual ==
  (Compared /\ RevenueOf(Mobile) # RevenueOf(Desktop)) => C27_LeadCardIsConsistent

----------------------------------------------------------------------------
(* Properties of the regional order, average and totals *)

RegionLoaded == page = "region" /\ ~loading /\ marketingData # NULL

\* the place of the first record of a region and country among the records
FirstRecordOf(records, point) ==
  CHOOSE i \in 1..Len(records) :
    /\ records[i].region = point.region /\ records[i].country = point.country
    /\ \A j \in 1..(i - 1) :
         ~(records[j].region = point.region /\ records[j].country = point.country)

\* C22: revenueMapData is in descending order of revenue, groups of equal
\* revenue in the order their keys were first encountered; spendMapData lists
\* the same groups in the same order; topRegion is the region of the first
\* group, 'N/A' when there is none.
C22_SortedByRevenueDescending ==
  page = "region" =>
    LET revenueMapData == aggregatedData.revenueMapData
        spendMapData == aggregatedData.spendMapData
        records == AllRegionalRecords(LoadedCampaigns, 1)
    IN  /\ \A i \in 1..(Len(revenueMapData) - 1) :
             /\ JsGe(revenueMapData[i].value, revenueMapData[i + 1].value)
             /\ revenueMapData[i].value = revenueMapData[i + 1].value =>
                  FirstRecordOf(records, revenueMapData[i])
                    < FirstRecordOf(records, revenueMapData[i + 1])
        /\ Len(spendMapData) = Len(revenueMapData)
        /\ \A i \in 1..Len(revenueMapData) :
             /\ spendMapData[i].region = revenueMapData[i].region
             /\ spendMapData[i].country = revenueMapData[i].country
        /\ aggregatedData.topRegion
             = IF Len(revenueMapData) = 0 THEN <<"N","/","A">>
               ELSE revenueMapData[1].region

\* the record of the smaller revenue arrives first: the group of the larger
\* revenue leads the map data and is the top region
C22_Witness ==
  /\ RegionLoaded
  /\ Len(AllRegionalRecords(LoadedCampaigns, 1)) = 2
  /\ AllRegionalRecords(LoadedCampaigns, 1)[1].region = Dubai
  /\ AllRegionalRecords(LoadedCampaigns, 1)[1].revenue = Zero
  /\ AllRegionalRecords(LoadedCampaigns, 1)[2].region = Riyadh
  /\ AllRegionalRecords(LoadedCampaigns, 1)[2].revenue = Num(1, 4)
  /\ Len(aggregatedData.revenueMapData) = 2
  /\ aggregatedData.revenueMapData[1].region = Riyadh
  /\ aggregatedData.spendMapData[2].region = Dubai
  /\ aggregatedData.topRegion = Riyadh

\* C23: averageRoas is the mean over the emitted groups of revenue / spend, a
\* group without spend counting for 0, and it is 0 when no group is emitted.
C23_AverageRoasIsMeanOfGroupRoas ==
  page = "region" =>
    LET revenueMapData == aggregatedData.revenueMapData
        spendMapData == aggregatedData.spendMapData
        Same(x) == x
        roas == [i \in 1..Len(revenueMapData) |->
                   ZeroGuarded(revenueMapData[i].value, spendMapData[i].value)]
    IN  aggregatedData.averageRoas
          = IF Len(revenueMapData) = 0 THEN Zero
            ELSE JsDiv(ReduceSum(roas, Same), Whole(Len(revenueMapData)))

\* a group with a return of 2 and a group without spend: the average is 1,
\* while the total revenue over the total spend is 2
C23_Witness ==
  /\ RegionLoaded
  /\ Len(aggregatedData.revenueMapData) = 2
  /\ aggregatedData.spendMapData[1].value = Num(1, 8)
  /\ aggregatedData.revenueMapData[1].value = Num(1, 4)
  /\ aggregatedData.spendMapData[2].value = Zero
  /\ aggregatedData.averageRoas = Whole(1)
  /\ JsDiv(aggregatedData.totalRevenue, aggregatedData.totalSpend) = Whole(2)

\* the record's group has a point on the map
IsOnTheMap(record) ==
  \E i \in 1..Len(aggregatedData.revenueMapData) :
    /\ aggregatedData.revenueMapData[i].region = record.region
    /\ aggregatedData.revenueMapData[i].country = record.country

\* C28: the regional totals are those of the emitted groups: totalRevenue is the
\* sum of the values of revenueMapData and totalSpend the sum of the values of
\* spendMapData; no emitted group is at the coordinates (0,0), and the revenue
\* and spend of the records of a group that is not emitted are in neither
\* total, nor is such a group the top region.
C28_TotalsOverEmittedGroups ==
  page = "region" =>
    LET Value(point) == point.value
        Revenue(r) == r.revenue
        Spend(r) == r.spend
        records == AllRegionalRecords(LoadedCampaigns, 1)
    IN  /\ aggregatedData.totalRevenue = ReduceSum(aggregatedData.revenueMapData, Value)
        /\ aggregatedData.totalSpend = ReduceSum(aggregatedData.spendMapData, Value)
        /\ aggregatedData.totalRevenue = ReduceSum(Filter(records, IsOnTheMap), Revenue)
        /\ aggregatedData.totalSpend = ReduceSum(Filter(records, IsOnTheMap), Spend)
        /\ \A i \in 1..Len(aggregatedData.revenueMapData) :
             /\ ~IsAtOrigin(aggregatedData.revenueMapData[i])
             /\ ~IsAtOrigin(aggregatedData.spendMapData[i])
        /\ \A i \in 1..Len(records) :
             ~IsOnTheMap(records[i]) => aggregatedData.topRegion # records[i].region

\* a record of Atlantis with the larger revenue next to a record of Dubai:
\* Dubai alone is emitted, the totals are Dubai's and Dubai is the top region
C28_Witness ==
  /\ RegionLoaded
  /\ Len(AllRegionalRecords(LoadedCampaigns, 1)) = 2
  /\ AllRegionalRecords(LoadedCampaigns, 1)[1].region = Atlantis
  /\ AllRegionalRecords(LoadedCampaigns, 1)[1].revenue = Num(1, 4)
  /\ AllRegionalRecords(LoadedCampaigns, 1)[2].region = Dubai
  /\ AllRegionalRecords(LoadedCampaigns, 1)[2].revenue = Zero
  /\ Len(aggregatedData.revenueMapData) = 1
  /\ aggregatedData.totalRevenue = Zero
  /\ aggregatedData.totalSpend = Zero
  /\ aggregatedData.topRegion = Dubai

-----------------------------------------------------------------------------
\* The fetch of a page

FetchSettled == fetched.status \in {"fulfilled", "rejected"}

\* C24: every page issues one fetch and no more: the count of fetches never
\* exceeds one, it is one as soon as a fetch is in flight or settled, and a
\* step from a state whose fetch was rejected issues no fetch and leaves the
\* fetch rejected.
C24_OneFetchAndNoRetry ==
  /\ [](fetches <= 1)
  /\ [](fetched.status # "none" => fetches = 1)
  /\ [][fetched.status = "rejected"
          => fetches' = fetches /\ fetched'.status = "rejected"]_vars

\* a client view whose only fetch was rejected
C24_Witness ==
  /\ page \in ClientPages
  /\ fetched.status = "rejected"
  /\ fetches = 1
  /\ ~loading

\* C25: in a client view the aggregation is recomputed once when the fetch
\* has resolved and never otherwise (not before the fetch settles, not after it
\* was rejected), and no step that leaves marketingData alone recomputes it.
C25_MemoizedOnMarketingData ==
  /\ [](page \in ClientPages
          => recomputations = IF fetched.status = "fulfilled" THEN 1 ELSE 0)
  /\ [][marketingData' = marketingData => recomputations' = recomputations]_vars

\* a client view re-rendered after a rejected fetch, loading turned false and
\* marketingData as it was
C25_Witness ==
  /\ page \in ClientPages
  /\ fetched.status = "rejected"
  /\ ~loading
  /\ marketingData = NULL
  /\ recomputations = 0

\* C26: the aggregation leaves its input as it was fetched: in a client view
\* the campaign list of the state equals the list the fetch resolved with, on
\* the device page rawData equals the list read from the response.
C26_InputUnmodified ==
  /\ (page \in ClientPages /\ fetched.status = "fulfilled"
        => marketingData = fetched.value)
  /\ (page = "device" /\ fetched.status = "fulfilled"
        => rawData = fetchRawDataFromExistingApi(response[1]).value)

\* the regional aggregation has run on two records of one region, the group's
\* revenue is not the revenue of the record that seeded it
C26_Witness ==
  /\ RegionLoaded
  /\ fetched.status = "fulfilled"
  /\ Len(AllRegionalRecords(LoadedCampaigns, 1)) = 2
  /\ regionKey(AllRegionalRecords(LoadedCampaigns, 1)[1])
       = regionKey(AllRegionalRecords(LoadedCampaigns, 1)[2])
  /\ Len(aggregatedData.revenueMapData) = 1
  /\ aggregatedData.revenueMapData[1].value
       # ToNumber(AllRegionalRecords(LoadedCampaigns, 1)[1].revenue)

\* C29: in a client view loading is true until the fetch settles, it
\* eventually becomes false, it never becomes true again, and when it is
\* false after a resolved fetch marketingData is set.
C29_LoadingSettles ==
  /\ [](page \in ClientPages /\ ~FetchSettled => loading)
  /\ (page \in ClientPages ~> ~loading)
  /\ [][~loading => ~loading']_vars
  /\ [](page \in ClientPages /\ ~loading /\ fetched.status = "fulfilled"
          => marketingData # NULL)

\* a client view whose fetch resolved: loading is false and the data is set
C29_Witness ==
  /\ page \in ClientPages
  /\ fetched.status = "fulfilled"
  /\ ~loading
  /\ marketingData # NULL

\* C30: in the demographic view error is set only after the fetch was
\* rejected, marketingData only after it resolved, never both, and the cards,
\* charts and tables are rendered only when no error message is.
C30_DataAndErrorExclusive ==
  page = "demographic" =>
    /\ (error # NULL => fetched.status = "rejected")
    /\ (marketingData # NULL => fetched.status = "fulfilled")
    /\ ~(error # NULL /\ marketingData # NULL)
    /\ (view.content # NULL => view.errorMessage = NULL)

\* the demographic view after a rejected fetch: the error banner, no content
C30_Witness ==
  /\ page = "demographic"
  /\ fetched.status = "rejected"
  /\ error # NULL
  /\ marketingData = NULL
  /\ view.screen = "page"
  /\ view.errorMessage = error
  /\ view.content = NULL

====
